---- MODULE Spec2Model ----
(***************************************************************************)
(* Model of the Kotatsu forum tag bot (galpt/go-kotatsu-bot).              *)
(*                                                                         *)
(* A Go string is a sequence of bytes.  A byte is written as a one         *)
(* character string when it is ASCII and as "xHH" otherwise, so that the   *)
(* byte length of a string (what len() and slicing use) and its runes      *)
(* (what strings.ToLower and strings.EqualFold use) stay distinct.         *)
(***************************************************************************)
EXTENDS Integers, Sequences, FiniteSets, TLC

VARIABLES
    origName,   \* SpecTitle: the thread title before any command
    prefixes,   \* SpecTitle: the prefixes requested so far, in order
    names,      \* SpecTitle: the title after each request
    cfg,        \* h.cfg: AllowedRoleIDs and AllowedPermissions
    perms,      \* SpecPerm: what UserChannelPermissions answers for the user
    member,     \* SpecPerm: what GuildMember answers for the user
    canManage,  \* SpecPerm: what userCanManagePosts returned, once called
    parentData, \* the parent forum's channel payload: its tag catalog
    applied,    \* SpecTags: the applied_tags the thread payload carries
    requested,  \* SpecTags: the commandConfig entry of the command
    reconciled, \* SpecTags: what lines 232-291 computed, once run
    watchedParents, \* h.watchedParents: the forum ids of cfg.ForumParentIDs
    channel,    \* the channel of the messages, as Discord holds it
    received,   \* how many messages have arrived
    msg,        \* per handler: the message (author, content)
    pc,         \* per handler: where onMessageCreate stands
    ch,         \* per handler: the channel as fetched at lines 67-71
    loc,        \* per handler: cfg entry, tagID, dotTagIDs, newApplied, newName,
                \* and the requests that returned an error
    calls,      \* per handler: the remote calls made, in order
    sent,       \* per handler: the messages posted with ChannelMessageSend
    edit,       \* per handler: the goroutine of lines 313-325
    resultChan, \* per handler: the buffered channel of line 311
    search,     \* per handler: the goroutine of lines 45-50, trySearchInMessage
    lookups,    \* per handler: the calls of searchAniList and their answers, in order
    embeds,     \* per handler: the embeds posted with ChannelMessageSendEmbed
    input,      \* SpecExtract: the text given to extractNamesFromRegex
    extraction  \* SpecExtract: what the two grammars gave, once run

titleVars == <<origName, prefixes, names>>
permVars == <<cfg, perms, member, canManage>>
tagVars == <<parentData, applied, requested, reconciled>>
searchVars == <<search, lookups, embeds>>
handlerVars == <<watchedParents, channel, received, msg, pc, ch, loc, calls, sent,
                 edit, resultChan, search, lookups, embeds>>
extractVars == <<input, extraction>>
vars == <<origName, prefixes, names, cfg, perms, member, canManage,
          parentData, applied, requested, reconciled,
          watchedParents, channel, received, msg, pc, ch, loc, calls, sent,
          edit, resultChan, search, lookups, embeds, input, extraction>>

(***************************************************************************)
(* Bounds of the model.                                                    *)
(***************************************************************************)
MaxFrags == 3   \* a title is made of at most this many fragments
MaxCmds == 2    \* commands applied in a row to one title
MaxRoleIDs == 1 \* entries of cfg.AllowedRoleIDs
MaxPermNames == 2 \* entries of cfg.AllowedPermissions
MaxRoles == 2   \* roles of a guild member
MaxTags == 3    \* tags of the parent forum's catalog
MaxApplied == 2 \* tags applied to the thread
MaxMsgs == 1    \* messages that arrive in one behaviour of Spec
MaxPieces == 4  \* pieces a text of SpecExtract is made of

(***************************************************************************)
(* Each specification below exercises one part of the program; the state   *)
(* of the other parts then stays at these values.                          *)
(***************************************************************************)
IdleTitle ==
    /\ origName = <<>>
    /\ prefixes = <<>>
    /\ names = <<>>

NoResult == [called |-> FALSE]

IdlePerm ==
    /\ cfg = [AllowedRoleIDs |-> <<>>, AllowedPermissions |-> <<>>]
    /\ perms = 0
    /\ member = [Roles |-> <<>>]
    /\ canManage = NoResult

IdleExtract ==
    /\ input = <<>>
    /\ extraction = NoResult

NoForumMetadata == [present |-> FALSE]

IdleTags ==
    /\ parentData = [AvailableTags |-> <<>>, ForumMetadata |-> NoForumMetadata]
    /\ applied = <<>>
    /\ requested = 0
    /\ reconciled = NoResult

\* the goroutines that discordgo runs onMessageCreate in
Handlers == {"h1", "h2"}

NoChannel == [ID |-> "", Type |-> 0, ParentID |-> "", GuildID |-> "", Name |-> <<>>]
NoLocals ==
    [cmd |-> 0, has |-> FALSE, err |-> FALSE, tagID |-> "", dotTagIDs |-> {},
     applied |-> <<>>, newApplied |-> <<>>, newName |-> <<>>, exit |-> "",
     failed |-> {}]
NoEditResult == [ok |-> FALSE, rest |-> FALSE, status |-> 0, headers |-> FALSE]
NoEdit == [st |-> "none", Name |-> <<>>, AppliedTags |-> <<>>, res |-> NoEditResult]
NoMessage == [Author |-> "", Content |-> <<>>]
NoSearch ==
    [st |-> "none", ch |-> [ID |-> "", ParentID |-> "", NSFW |-> FALSE],
     evaluated |-> <<>>, names |-> <<>>, mediaType |-> "", i |-> 0, lines |-> <<>>]

IdleHandlers ==
    /\ received = 0
    /\ msg = [h \in Handlers |-> NoMessage]
    /\ pc = [h \in Handlers |-> "idle"]
    /\ ch = [h \in Handlers |-> NoChannel]
    /\ loc = [h \in Handlers |-> NoLocals]
    /\ calls = [h \in Handlers |-> <<>>]
    /\ sent = [h \in Handlers |-> <<>>]
    /\ edit = [h \in Handlers |-> NoEdit]
    /\ resultChan = [h \in Handlers |-> <<>>]
    /\ search = [h \in Handlers |-> NoSearch]
    /\ lookups = [h \in Handlers |-> <<>>]
    /\ embeds = [h \in Handlers |-> <<>>]

IdleHandler ==
    /\ watchedParents = {}
    /\ channel = [ID |-> "", Type |-> 0, ParentID |-> "", GuildID |-> "",
                  Name |-> <<>>, AppliedTags |-> <<>>]
    /\ IdleHandlers

(***************************************************************************)
(* Strings.                                                                *)
(***************************************************************************)
UpperLetters == <<"A", "B", "C", "D", "E", "F", "G", "H", "I", "J", "K", "L", "M", "N", "O", "P", "Q", "R", "S", "T", "U", "V", "W", "X", "Y", "Z">>
LowerLetters == <<"a", "b", "c", "d", "e", "f", "g", "h", "i", "j", "k", "l", "m", "n", "o", "p", "q", "r", "s", "t", "u", "v", "w", "x", "y", "z">>

\* U+212A KELVIN SIGN in UTF-8; unicode.ToLower maps it to 'k'.
KelvinSign == <<"xE2", "x84", "xAA">>
\* U+FFFD, what strings.Map writes for a byte that is not valid UTF-8.
RuneError == <<"xEF", "xBF", "xBD">>
NonASCII == {"xE2", "x84", "xAA", "xEF", "xBF", "xBD"}

UpperSet == {UpperLetters[i] : i \in 1..Len(UpperLetters)}
lowerOf == [c \in UpperSet |-> LowerLetters[CHOOSE i \in 1..Len(UpperLetters) : UpperLetters[i] = c]]

\* unicode.ToLower on an ASCII byte
LowerByte(b) == IF b \in UpperSet THEN lowerOf[b] ELSE b

DropBytes(s, n) == SubSeq(s, n + 1, Len(s))

\* strings.Map(unicode.ToLower, s): rune by rune; the Kelvin sign (3 bytes)
\* becomes "k" (1 byte), a byte that is not valid UTF-8 becomes U+FFFD
RECURSIVE MapToLower(_)
MapToLower(s) ==
    IF s = <<>> THEN <<>>
    ELSE IF Len(s) >= 3 /\ SubSeq(s, 1, 3) = KelvinSign
         THEN <<"k">> \o MapToLower(DropBytes(s, 3))
    ELSE IF s[1] \in NonASCII
         THEN RuneError \o MapToLower(Tail(s))
    ELSE <<LowerByte(s[1])>> \o MapToLower(Tail(s))

\* strings.ToLower: byte by byte when the string is ASCII, else by runes
ToLower(s) ==
    IF \A i \in 1..Len(s) : s[i] \notin NonASCII
    THEN [i \in 1..Len(s) |-> LowerByte(s[i])]
    ELSE MapToLower(s)

\* unicode.IsSpace on the bytes of the model
IsSpace(b) == b \in {" ", "\t", "\n"}

RECURSIVE TrimLeft(_)
TrimLeft(s) == IF s # <<>> /\ IsSpace(s[1]) THEN TrimLeft(Tail(s)) ELSE s

RECURSIVE TrimRight(_)
TrimRight(s) ==
    IF s # <<>> /\ IsSpace(s[Len(s)]) THEN TrimRight(SubSeq(s, 1, Len(s) - 1)) ELSE s

\* strings.TrimSpace
TrimSpace(s) == TrimRight(TrimLeft(s))

\* strings.HasPrefix
HasPrefix(s, p) == Len(s) >= Len(p) /\ SubSeq(s, 1, Len(p)) = p

\* strings.EqualFold: rune by rune under simple case folding (K, k and the
\* Kelvin sign fold together)
EqualFold(a, b) == ToLower(a) = ToLower(b)

(***************************************************************************)
(* commandConfig, src/commands.go:14-24.                                   *)
(***************************************************************************)
PrefixSolved == <<"[", "S", "o", "l", "v", "e", "d", "]">>
PrefixAware == <<"[", "D", "e", "v", "s", " ", "a", "w", "a", "r", "e", "]">>
PrefixDuplicate == <<"[", "D", "u", "p", "l", "i", "c", "a", "t", "e", "]">>
PrefixFalse == <<"[", "F", "a", "l", "s", "e", " ", "r", "e", "p", "o", "r", "t", "]">>
PrefixKnown == <<"[", "K", "n", "o", "w", "n", " ", "i", "s", "s", "u", "e", "]">>
PrefixWrong == <<"[", "W", "r", "o", "n", "g", " ", "c", "h", "a", "n", "n", "e", "l", "]">>

TagSolved == <<".", "S", "o", "l", "v", "e", "d">>
TagAware == <<".", "D", "e", "v", "s", " ", "a", "w", "a", "r", "e">>
TagDuplicate == <<".", "D", "u", "p", "l", "i", "c", "a", "t", "e">>
TagFalse == <<".", "F", "a", "l", "s", "e", " ", "r", "e", "p", "o", "r", "t">>
TagKnown == <<".", "K", "n", "o", "w", "n", " ", "i", "s", "s", "u", "e">>
TagWrong == <<".", "W", "r", "o", "n", "g", " ", "c", "h", "a", "n", "n", "e", "l">>

KeySolved == <<"s", "o", "l", "v", "e", "d">>
KeyAware == <<"a", "w", "a", "r", "e">>
KeyDuplicate == <<"d", "u", "p", "l", "i", "c", "a", "t", "e">>
KeyFalse == <<"f", "a", "l", "s", "e">>
KeyKnown == <<"k", "n", "o", "w", "n">>
KeyWrong == <<"w", "r", "o", "n", "g">>

commandConfig ==
    << [Key |-> KeySolved,    Prefix |-> PrefixSolved,    TagName |-> TagSolved],
       [Key |-> KeyAware,     Prefix |-> PrefixAware,     TagName |-> TagAware],
       [Key |-> KeyDuplicate, Prefix |-> PrefixDuplicate, TagName |-> TagDuplicate],
       [Key |-> KeyFalse,     Prefix |-> PrefixFalse,     TagName |-> TagFalse],
       [Key |-> KeyKnown,     Prefix |-> PrefixKnown,     TagName |-> TagKnown],
       [Key |-> KeyWrong,     Prefix |-> PrefixWrong,     TagName |-> TagWrong] >>

Commands == {commandConfig[i] : i \in 1..Len(commandConfig)}

(***************************************************************************)
(* addPrefixIfMissing, src/commands.go:416-442.                            *)
(***************************************************************************)
knownPrefixes ==
    <<PrefixSolved, PrefixAware, PrefixDuplicate, PrefixFalse, PrefixKnown, PrefixWrong>>

\* strings.ToLower(kp) for each known prefix
lowerKnownPrefixes == [i \in 1..Len(knownPrefixes) |-> ToLower(knownPrefixes[i])]

\* the inner for loop: the first known prefix, in table order, that the
\* lower-cased title starts with; 0 when none does
firstKnownPrefix(stripped) ==
    LET low  == ToLower(stripped)
        hits == {i \in 1..Len(knownPrefixes) : HasPrefix(low, lowerKnownPrefixes[i])}
    IN  IF hits = {} THEN 0 ELSE CHOOSE i \in hits : \A j \in hits : i <= j

\* the outer for loop: stripped = TrimSpace(stripped[len(kp):]) until no
\* known prefix is found; the slice counts bytes of the prefix, not of the match
RECURSIVE stripKnownPrefixes(_)
stripKnownPrefixes(stripped) ==
    LET i == firstKnownPrefix(stripped)
    IN  IF i = 0 THEN stripped
        ELSE stripKnownPrefixes(TrimSpace(DropBytes(stripped, Len(knownPrefixes[i]))))

\* a version that only prepends: the prefixes stack
addPrefixNoStrip(name, prefix) == prefix \o <<" ">> \o TrimSpace(name)

addPrefixIfMissing(name, prefix) ==
    prefix \o <<" ">> \o stripKnownPrefixes(TrimSpace(name))

(***************************************************************************)
(* userCanManagePosts, src/commands.go:445-496.                            *)
(***************************************************************************)
\* permission bits of discordgo
PermissionKickMembers == 2
PermissionAdministrator == 8
PermissionManageChannels == 16
PermissionSendMessages == 2048
PermissionManageMessages == 8192
PermissionManageRoles == 268435456

\* a & b on non-negative integers
RECURSIVE BitAnd(_, _)
BitAnd(a, b) ==
    IF a = 0 \/ b = 0 THEN 0
    ELSE (a % 2) * (b % 2) + 2 * BitAnd(a \div 2, b \div 2)

\* the const of line 494: an | of four distinct bits
needed ==
    PermissionManageChannels + PermissionManageRoles
        + PermissionManageMessages + PermissionAdministrator

\* the switch of lines 471-488: a name it does not list matches nothing
namedPermissionHeld(name, p) ==
    CASE name = "ADMINISTRATOR"   -> BitAnd(p, PermissionAdministrator) # 0
      [] name = "MANAGE_CHANNELS" -> BitAnd(p, PermissionManageChannels) # 0
      [] name = "MANAGE_ROLES"    -> BitAnd(p, PermissionManageRoles) # 0
      [] name = "MANAGE_MESSAGES" -> BitAnd(p, PermissionManageMessages) # 0
      [] OTHER -> FALSE

\* lines 458-465: some role of the member is an allowed role
hasAllowedRole(roles, allowed) ==
    \E i \in 1..Len(roles) : \E j \in 1..Len(allowed) : roles[i] = allowed[j]

\* a version that looks at the permission list before the role list
userCanManagePostsPermsFirst(c, permsRes, memberRes) ==
    IF permsRes.err THEN [has |-> FALSE, err |-> TRUE]
    ELSE IF Len(c.AllowedPermissions) > 0
    THEN [has |-> \E i \in 1..Len(c.AllowedPermissions) :
                      namedPermissionHeld(c.AllowedPermissions[i], permsRes.perms),
          err |-> FALSE]
    ELSE IF Len(c.AllowedRoleIDs) > 0
    THEN IF memberRes.err THEN [has |-> FALSE, err |-> TRUE]
         ELSE [has |-> hasAllowedRole(memberRes.Roles, c.AllowedRoleIDs), err |-> FALSE]
    ELSE [has |-> BitAnd(permsRes.perms, needed) # 0, err |-> FALSE]

\* a version whose default mode forgets the Manage Roles bit
userCanManagePostsThreeBits(c, permsRes, memberRes) ==
    IF permsRes.err THEN [has |-> FALSE, err |-> TRUE]
    ELSE IF Len(c.AllowedRoleIDs) > 0
    THEN IF memberRes.err THEN [has |-> FALSE, err |-> TRUE]
         ELSE [has |-> hasAllowedRole(memberRes.Roles, c.AllowedRoleIDs), err |-> FALSE]
    ELSE IF Len(c.AllowedPermissions) > 0
    THEN [has |-> \E i \in 1..Len(c.AllowedPermissions) :
                      namedPermissionHeld(c.AllowedPermissions[i], permsRes.perms),
          err |-> FALSE]
    ELSE [has |-> BitAnd(permsRes.perms, needed - PermissionManageRoles) # 0, err |-> FALSE]

\* permsRes: the answer of s.UserChannelPermissions; memberRes: the answer of
\* s.GuildMember, which is asked only in role mode
userCanManagePosts(c, permsRes, memberRes) ==
    IF permsRes.err THEN [has |-> FALSE, err |-> TRUE]
    ELSE IF Len(c.AllowedRoleIDs) > 0
    THEN IF memberRes.err THEN [has |-> FALSE, err |-> TRUE]
         ELSE [has |-> hasAllowedRole(memberRes.Roles, c.AllowedRoleIDs), err |-> FALSE]
    ELSE IF Len(c.AllowedPermissions) > 0
    THEN [has |-> \E i \in 1..Len(c.AllowedPermissions) :
                      namedPermissionHeld(c.AllowedPermissions[i], permsRes.perms),
          err |-> FALSE]
    ELSE [has |-> BitAnd(permsRes.perms, needed) # 0, err |-> FALSE]

(***************************************************************************)
(* SpecPerm: userCanManagePosts on bounded configurations and users.       *)
(***************************************************************************)
RECURSIVE SeqsUpTo(_, _)
SeqsUpTo(S, n) ==
    IF n = 0 THEN {<<>>}
    ELSE LET shorter == SeqsUpTo(S, n - 1)
         IN  shorter \cup {Append(q, x) : q \in shorter, x \in S}

RoleIDs == {"r1", "r2"}
PermNames == {"ADMINISTRATOR", "MANAGE_CHANNELS", "MANAGE_ROLES", "MANAGE_MESSAGES", "KICK_MEMBERS"}

\* bitmasks: nothing, each bit alone, and some unions
PermValues ==
    { 0, PermissionKickMembers, PermissionAdministrator, PermissionManageChannels,
      PermissionSendMessages, PermissionManageMessages, PermissionManageRoles,
      PermissionKickMembers + PermissionSendMessages,
      PermissionSendMessages + PermissionManageMessages,
      PermissionAdministrator + PermissionManageChannels + PermissionManageRoles }

Configs ==
    [AllowedRoleIDs : SeqsUpTo(RoleIDs, MaxRoleIDs),
     AllowedPermissions : SeqsUpTo(PermNames, MaxPermNames)]

InitPerm ==
    /\ cfg \in Configs
    /\ perms \in PermValues
    /\ member \in [Roles : SeqsUpTo({"r1", "r3"}, MaxRoles)]
    /\ canManage = NoResult
    /\ IdleTitle
    /\ IdleTags
    /\ IdleHandler /\ IdleExtract

\* one call of userCanManagePosts; each remote fetch answers or fails
CheckPermission ==
    /\ ~canManage.called
    /\ \E permsErr \in BOOLEAN, memberErr \in BOOLEAN :
        LET r == userCanManagePosts(cfg,
                     [err |-> permsErr, perms |-> perms],
                     [err |-> memberErr, Roles |-> member.Roles])
        IN  canManage' = [called |-> TRUE, has |-> r.has, err |-> r.err,
                          permsErr |-> permsErr, memberErr |-> memberErr]
    /\ UNCHANGED <<cfg, perms, member, titleVars, tagVars, handlerVars, extractVars>>

NextPerm == CheckPermission

SpecPerm == InitPerm /\ [][NextPerm]_vars


(***************************************************************************)
(* The tag lookup and the new applied-tag list, src/commands.go:220-291.   *)
(***************************************************************************)
\* lines 220-224: top-level available_tags, else forum_metadata.available_tags
availableTags(pd) ==
    IF Len(pd.AvailableTags) = 0 /\ pd.ForumMetadata.present
    THEN pd.ForumMetadata.AvailableTags
    ELSE pd.AvailableTags

\* lines 234-236: the ids of the catalog tags whose name starts with "."
dotTagIDsOf(available) ==
    {available[i].ID : i \in {j \in 1..Len(available) : HasPrefix(available[j].Name, <<".">>)}}

\* lines 238-240: the id of the last catalog tag whose name equals the
\* command's tag name when case is ignored; "" when there is none
tagIDOf(available, tagName) ==
    LET hits == {i \in 1..Len(available) : EqualFold(available[i].Name, tagName)}
    IN  IF hits = {} THEN ""
        ELSE available[CHOOSE i \in hits : \A j \in hits : j <= i].ID

\* lines 275-280: the applied ids that are not dot-tags, in order
RECURSIVE keepNonDot(_, _)
keepNonDot(appliedTags, dotTagIDs) ==
    IF appliedTags = <<>> THEN <<>>
    ELSE IF Head(appliedTags) \in dotTagIDs
         THEN keepNonDot(Tail(appliedTags), dotTagIDs)
         ELSE <<Head(appliedTags)>> \o keepNonDot(Tail(appliedTags), dotTagIDs)

\* a version that forgets to drop the dot-tags already applied
newAppliedNoRemoval(appliedTags, dotTagIDs, tagID) ==
    IF \E i \in 1..Len(appliedTags) : appliedTags[i] = tagID
    THEN appliedTags ELSE Append(appliedTags, tagID)

\* a version that keeps each unmanaged id once
RECURSIVE dedup(_)
dedup(q) ==
    IF q = <<>> THEN <<>>
    ELSE LET front == dedup(SubSeq(q, 1, Len(q) - 1))
         IN  IF \E i \in 1..Len(front) : front[i] = q[Len(q)]
             THEN front ELSE Append(front, q[Len(q)])

newAppliedDedup(appliedTags, dotTagIDs, tagID) ==
    LET kept == dedup(keepNonDot(appliedTags, dotTagIDs))
    IN  IF \E i \in 1..Len(kept) : kept[i] = tagID THEN kept ELSE Append(kept, tagID)

\* lines 275-291: drop the dot-tags, append the wanted id if it is not there
newAppliedTags(appliedTags, dotTagIDs, tagID) ==
    LET kept == keepNonDot(appliedTags, dotTagIDs)
    IN  IF \E i \in 1..Len(kept) : kept[i] = tagID THEN kept ELSE Append(kept, tagID)

(***************************************************************************)
(* SpecTags: the tag reconciliation on bounded catalogs and applied lists. *)
(***************************************************************************)
NameLowerSolved == <<".", "s", "o", "l", "v", "e", "d">>
NameNoDotSolved == <<"S", "o", "l", "v", "e", "d">>
NameBug == <<"b", "u", "g">>

TagIDs == <<"t1", "t2", "t3", "t4", "t5">>
TagNames == {TagSolved, NameLowerSolved, TagDuplicate, NameNoDotSolved, NameBug}

\* catalogs: the i-th tag has the i-th id, any names
Catalogs ==
    UNION {[1..n -> TagNames] : n \in 0..MaxTags}

catalogOf(nameSeq) ==
    [i \in 1..Len(nameSeq) |-> [ID |-> TagIDs[i], Name |-> nameSeq[i]]]

\* the two shapes of the parent payload
Payloads ==
    {[AvailableTags |-> catalogOf(c), ForumMetadata |-> NoForumMetadata] : c \in Catalogs}
    \cup
    {[AvailableTags |-> <<>>,
      ForumMetadata |-> [present |-> TRUE, AvailableTags |-> catalogOf(c)]] : c \in Catalogs}

AppliedIDs == {"t1", "t2", "t3", "t4"}

InitTags ==
    /\ parentData \in Payloads
    /\ applied \in SeqsUpTo(AppliedIDs, MaxApplied)
    /\ requested \in {1, 3}
    /\ reconciled = NoResult
    /\ IdleTitle
    /\ IdlePerm
    /\ IdleHandler /\ IdleExtract

\* lines 220-291 on the fetched payloads
ReconcileTags ==
    /\ ~reconciled.called
    /\ LET available == availableTags(parentData)
           dotTagIDs == dotTagIDsOf(available)
           tagID     == tagIDOf(available, commandConfig[requested].TagName)
       IN  reconciled' =
               IF tagID = ""
               THEN [called |-> TRUE, found |-> FALSE, dotTagIDs |-> dotTagIDs,
                     tagID |-> tagID, newApplied |-> <<>>]
               ELSE [called |-> TRUE, found |-> TRUE, dotTagIDs |-> dotTagIDs,
                     tagID |-> tagID,
                     newApplied |-> newAppliedTags(applied, dotTagIDs, tagID)]
    /\ UNCHANGED <<parentData, applied, requested, titleVars, permVars, handlerVars, extractVars>>

NextTags == ReconcileTags

SpecTags == InitTags /\ [][NextTags]_vars

(***************************************************************************)
(* SpecTitle: addPrefixIfMissing applied to bounded titles.                *)
(***************************************************************************)
FragUpperDuplicate == <<"[", "D", "U", "P", "L", "I", "C", "A", "T", "E", "]", " ">>
FragKelvinKnown == <<"[", "xE2", "x84", "xAA", "n", "o", "w", "n", " ", "i", "s", "s", "u", "e", "]">>
FragHelp == <<"[", "H", "e", "l", "p", "!", "]", " ">>

\* what titles are made of: managed prefixes in several spellings, blanks,
\* unrelated bracketed text and plain text
Fragments ==
    {PrefixSolved, FragUpperDuplicate, FragKelvinKnown, FragHelp, <<" ">>, <<"x">>}

RECURSIVE TitlesOf(_)
TitlesOf(n) ==
    IF n = 0 THEN {<<>>}
    ELSE LET shorter == TitlesOf(n - 1)
         IN  shorter \cup {t \o f : t \in shorter, f \in Fragments}

Titles == TitlesOf(MaxFrags)

ManagedPrefixes == {knownPrefixes[i] : i \in 1..Len(knownPrefixes)}

InitTitle ==
    /\ origName \in Titles
    /\ prefixes = <<>>
    /\ names = <<>>
    /\ IdlePerm
    /\ IdleTags
    /\ IdleHandler /\ IdleExtract

\* one command: the title is read and the prefixed title written back
ApplyPrefix ==
    /\ Len(prefixes) < MaxCmds
    /\ \E p \in ManagedPrefixes :
        /\ prefixes' = Append(prefixes, p)
        /\ names' = Append(names,
               addPrefixIfMissing(IF names = <<>> THEN origName ELSE names[Len(names)], p))
    /\ UNCHANGED <<origName, permVars, tagVars, handlerVars, extractVars>>

NextTitle == ApplyPrefix

SpecTitle == InitTitle /\ [][NextTitle]_vars

(***************************************************************************)
(* extractNamesFromRegex and the two grammars, src/search.go:44-46 and     *)
(* 119-136.  Go's regexp is leftmost-first: at the first position where an *)
(* alternative matches, the first alternative in the order written wins,   *)
(* and a lazy quantifier takes the shortest run that lets the rest match.  *)
(* A match is the position of its last byte (0: no match) and the text of  *)
(* group 1 (empty when the group took no part).                            *)
(***************************************************************************)
Backtick == "x60"
Digits == {"0", "1", "2", "3", "4", "5", "6", "7", "8", "9"}

NoMatch == [end |-> 0, g1 |-> <<>>]

\* "." matches every byte of s[a..b]: none is a newline
AllDot(s, a, b) == \A k \in a..b : s[k] # "\n"

\* the first position from a on that holds c, 0 if there is none
firstAt(s, c, a) ==
    IF \E j \in a..Len(s) : s[j] = c
    THEN CHOOSE j \in a..Len(s) : s[j] = c /\ \A k \in a..(j - 1) : s[k] # c
    ELSE 0

\* lit is in s at position k
LitAt(s, lit, k) == k + Len(lit) - 1 <= Len(s) /\ SubSeq(s, k, k + Len(lit) - 1) = lit

\* `[\s\S]*?` at i
matchTicks(s, i) ==
    IF s[i] = Backtick /\ firstAt(s, Backtick, i + 1) # 0
    THEN [end |-> firstAt(s, Backtick, i + 1), g1 |-> <<>>]
    ELSE NoMatch

\* open(.*?)close at i, for \{(.*?)\} and <(.*?)>
matchGroup(s, i, open, close) ==
    LET j == firstAt(s, close, i + 1)
    IN  IF s[i] = open /\ j # 0 /\ AllDot(s, i + 1, j - 1)
        THEN [end |-> j, g1 |-> SubSeq(s, i + 1, j - 1)]
        ELSE NoMatch

\* https?:\/\/ at k: the position after it, 0 if it is not there
afterScheme(s, k) ==
    IF LitAt(s, <<"h", "t", "t", "p", "s", ":", "/", "/">>, k) THEN k + 8
    ELSE IF LitAt(s, <<"h", "t", "t", "p", ":", "/", "/">>, k) THEN k + 7
    ELSE 0

\* .*?> from p: the position of the first '>' when no newline precedes it
lazyToClose(s, p) ==
    LET q == firstAt(s, ">", p)
    IN  IF p # 0 /\ q # 0 /\ AllDot(s, p, q - 1) THEN q ELSE 0

\* <.*?https?:\/\/.*?> at i
matchURL(s, i) ==
    LET ok(k) == AllDot(s, i + 1, k - 1) /\ lazyToClose(s, afterScheme(s, k)) # 0
    IN  IF s[i] = "<" /\ \E k \in (i + 1)..Len(s) : ok(k)
        THEN LET k == CHOOSE k \in (i + 1)..Len(s) :
                          ok(k) /\ \A k2 \in (i + 1)..(k - 1) : ~ok(k2)
             IN  [end |-> lazyToClose(s, afterScheme(s, k)), g1 |-> <<>>]
        ELSE NoMatch

\* :\d*> at c: the position of the '>' that follows the digits, 0 if none
RECURSIVE afterDigits(_, _)
afterDigits(s, e) ==
    IF e > Len(s) THEN 0
    ELSE IF s[e] \in Digits THEN afterDigits(s, e + 1)
    ELSE IF s[e] = ">" THEN e
    ELSE 0

\* <a?:.+?:\d*> at i
matchEmoji(s, i) ==
    LET b == IF LitAt(s, <<"<", "a", ":">>, i) THEN i + 2
             ELSE IF LitAt(s, <<"<", ":">>, i) THEN i + 1
             ELSE 0
        ok(c) == s[c] = ":" /\ AllDot(s, b + 1, c - 1) /\ afterDigits(s, c + 1) # 0
    IN  IF b # 0 /\ \E c \in (b + 2)..Len(s) : ok(c)
        THEN LET c == CHOOSE c \in (b + 2)..Len(s) :
                          ok(c) /\ \A c2 \in (b + 2)..(c - 1) : ~ok(c2)
             IN  [end |-> afterDigits(s, c + 1), g1 |-> <<>>]
        ELSE NoMatch

\* the first alternative of ms that matches
RECURSIVE firstMatch(_)
firstMatch(ms) ==
    IF ms = <<>> THEN NoMatch
    ELSE IF Head(ms).end # 0 THEN Head(ms)
    ELSE firstMatch(Tail(ms))

\* animeRe (line 45) and mangaRe (line 46) at position i
animeRe(s, i) == firstMatch(<<matchTicks(s, i), matchGroup(s, i, "{", "}")>>)
mangaRe(s, i) ==
    firstMatch(<<matchURL(s, i), matchEmoji(s, i), matchTicks(s, i),
                 matchGroup(s, i, "<", ">")>>)

matchAt(re, s, i) == IF re = "ANIME" THEN animeRe(s, i) ELSE mangaRe(s, i)

\* re.FindAllStringSubmatch(content, -1): the matches from left to right,
\* each as <<whole match, group 1>>
RECURSIVE FindAllStringSubmatch(_, _, _)
FindAllStringSubmatch(re, s, i) ==
    IF i > Len(s) THEN <<>>
    ELSE LET mt == matchAt(re, s, i)
         IN  IF mt.end = 0 THEN FindAllStringSubmatch(re, s, i + 1)
             ELSE << <<SubSeq(s, i, mt.end), mt.g1>> >>
                  \o FindAllStringSubmatch(re, s, mt.end + 1)

\* strings.Trim(s, "`<>{}")
Cutset == {Backtick, "<", ">", "{", "}"}
RECURSIVE TrimCutLeft(_)
TrimCutLeft(s) == IF s # <<>> /\ s[1] \in Cutset THEN TrimCutLeft(Tail(s)) ELSE s
RECURSIVE TrimCutRight(_)
TrimCutRight(s) ==
    IF s # <<>> /\ s[Len(s)] \in Cutset THEN TrimCutRight(SubSeq(s, 1, Len(s) - 1)) ELSE s
TrimCut(s) == TrimCutRight(TrimCutLeft(s))

\* lines 122-134 for one match
nameOf(mt) ==
    IF TrimSpace(mt[2]) # <<>> THEN <<TrimSpace(mt[2])>>
    ELSE LET full == TrimCut(TrimSpace(mt[1]))
         IN  IF full # <<>> THEN <<full>> ELSE <<>>

RECURSIVE namesOf(_)
namesOf(matches) ==
    IF matches = <<>> THEN <<>> ELSE nameOf(Head(matches)) \o namesOf(Tail(matches))

extractNamesFromRegex(re, content) == namesOf(FindAllStringSubmatch(re, content, 1))

(***************************************************************************)
(* SpecExtract: extractNamesFromRegex on every text made of a few pieces.  *)
(***************************************************************************)
PieceURL == <<"h", "t", "t", "p", "s", ":", "/", "/", "e">>
PieceEmoji == <<":", "n", ":", "1", "2">>

Pieces ==
    <<<<Backtick>>, <<"{">>, <<"}">>, <<"<">>, <<">">>, <<" ">>, <<"a">>, <<"\n">>,
      PieceURL, PieceEmoji>>

RECURSIVE TextsOf(_)
TextsOf(n) ==
    IF n = 0 THEN {<<>>}
    ELSE TextsOf(n - 1) \cup
         {t \o Pieces[i] : t \in TextsOf(n - 1), i \in 1..Len(Pieces)}

Texts == TextsOf(MaxPieces)

InitExtract ==
    /\ input \in Texts
    /\ extraction = NoResult
    /\ IdleTitle /\ IdlePerm /\ IdleTags /\ IdleHandler

Extract ==
    /\ ~extraction.called
    /\ extraction' = [called |-> TRUE,
                      anime |-> extractNamesFromRegex("ANIME", input),
                      manga |-> extractNamesFromRegex("MANGA", input)]
    /\ UNCHANGED <<input, titleVars, permVars, tagVars, handlerVars>>

NextExtract == Extract

SpecExtract == InitExtract /\ [][NextExtract]_vars

(***************************************************************************)
(* onMessageCreate, src/commands.go:27-403.                                *)
(***************************************************************************)
\* discordgo channel types; isThreadChannel accepts the two thread types
ChannelTypeGuildText == 0
ChannelTypeGuildNewsThread == 10
ChannelTypeGuildPublicThread == 11
ChannelTypeGuildPrivateThread == 12

isThreadChannelAny(c) == TRUE
isThreadChannel(c) ==
    c.Type \in {ChannelTypeGuildPublicThread, ChannelTypeGuildPrivateThread}

\* the users of the guild: a moderator, a member with role r1, a plain
\* member, and another bot that is an administrator
Authors == {"mod", "helper", "guest", "bot"}
authorBot(a) == a = "bot"
authorPerms(a) ==
    CASE a = "mod"    -> PermissionSendMessages + PermissionManageMessages
      [] a = "helper" -> PermissionSendMessages
      [] a = "guest"  -> PermissionSendMessages
      [] a = "bot"    -> PermissionAdministrator
authorRoles(a) == IF a = "helper" THEN <<"r1">> ELSE IF a = "mod" THEN <<"r3">> ELSE <<>>

ContentSolved == <<".", "s", "o", "l", "v", "e", "d">>
ContentDuplicateArgs == <<" ", ".", "D", "u", "p", "l", "i", "c", "a", "t", "e", " ", " ", "n", "o", "w", " ">>
ContentListTags == <<".", "l", "i", "s", "t", "-", "t", "a", "g", "s">>
ContentTwoDots == <<".", ".", "s", "o", "l", "v", "e", "d">>
\* the backquote byte 0x60 is written "x60"
ContentChat == <<"h", "i", " ", "x60", "x", "x60">>
ContentBlank == <<" ", " ">>

ContentUnknownTicks == <<".", "n", "o", "p", "e", " ", "x60", "x", "x60">>
ContentSolvedBraces == <<".", "s", "o", "l", "v", "e", "d", " ", "{", "x", "}">>

Contents ==
    {ContentSolved, ContentDuplicateArgs, ContentListTags, ContentTwoDots,
     ContentChat, ContentBlank, ContentUnknownTicks, ContentSolvedBraces}

\* messages that are no commands, for the search
ContentThree == <<"x60", "a", "x60", " ", "{", "b", "}", " ", "x60", "c", "x60">>
ContentBoth == <<"{", "a", "}", " ", "<", "b", ">">>
ContentAngle == <<"<", "c", ">">>
ContentAngles == <<"<", "c", ">", " ", "<", "d", ">">>
ContentPlain == <<"h", "e", "l", "l", "o">>
ContentLink == <<"<", "h", "t", "t", "p", "s", ":", "/", "/", "e", ">">>
ContentBlankTicks == <<"x60", " ", "x60">>

ChatContents ==
    {ContentChat, ContentThree, ContentBoth, ContentAngle, ContentAngles,
     ContentPlain, ContentLink, ContentBlankTicks}

\* strings.Fields(content)[0] for a content that starts with a non-blank
RECURSIVE firstField(_)
firstField(s) ==
    IF s = <<>> \/ IsSpace(s[1]) THEN <<>> ELSE <<s[1]>> \o firstField(Tail(s))

\* strings.TrimPrefix
TrimPrefix(s, p) == IF HasPrefix(s, p) THEN DropBytes(s, Len(p)) ELSE s

\* line 57
commandOf(content) == TrimPrefix(ToLower(firstField(content)), <<".">>)

\* a table lookup that answers the first entry for a key it does not hold
lookupCommandLenient(cmd) ==
    IF \E i \in 1..Len(commandConfig) : commandConfig[i].Key = cmd
    THEN CHOOSE i \in 1..Len(commandConfig) : commandConfig[i].Key = cmd
    ELSE 1

\* line 61: the index of the entry of commandConfig with that key, 0 if none
lookupCommand(cmd) ==
    IF \E i \in 1..Len(commandConfig) : commandConfig[i].Key = cmd
    THEN CHOOSE i \in 1..Len(commandConfig) : commandConfig[i].Key = cmd
    ELSE 0

\* a posted message: what it says and the text it carries
Msg(kind, text) == [kind |-> kind, text |-> text]

StatusText(n) ==
    CASE n = 0 -> "0" [] n = 400 -> "400" [] n = 403 -> "403" [] n = 404 -> "404"
      [] n = 429 -> "429" [] n = 500 -> "500" [] n = 502 -> "502"
      [] n = 503 -> "503" [] n = 504 -> "504"

\* one message for every failure, whatever the status
failureMessageGeneric(res) == Msg("failed", <<StatusText(res.status)>>)

\* lines 342-395: the message for a failed ChannelEdit
failureMessage(res) ==
    IF ~res.rest THEN Msg("failed-unknown", <<>>)
    ELSE CASE res.status = 429 ->
                Msg("throttled", IF res.headers THEN <<"headers">> ELSE <<"no-headers">>)
           [] res.status = 403 -> Msg("forbidden", <<>>)
           [] res.status = 404 -> Msg("not-found", <<>>)
           [] res.status \in {500, 502, 503, 504} -> Msg("server-error", <<>>)
           [] OTHER -> Msg("failed", <<StatusText(res.status)>>)

\* what s.ChannelEdit can answer: success, a REST error with a status (0: no
\* response attached), or another error
EditResults ==
    {[ok |-> TRUE, rest |-> FALSE, status |-> 0, headers |-> FALSE],
     [ok |-> FALSE, rest |-> FALSE, status |-> 0, headers |-> FALSE],
     [ok |-> FALSE, rest |-> TRUE, status |-> 429, headers |-> TRUE],
     [ok |-> FALSE, rest |-> TRUE, status |-> 429, headers |-> FALSE]}
    \cup {[ok |-> FALSE, rest |-> TRUE, status |-> n, headers |-> FALSE] :
             n \in {0, 400, 403, 404, 500, 502, 503, 504}}

\* json.Marshal of the discordgo Channel: available_tags, no forum_metadata
marshalParent(pd) ==
    [AvailableTags |-> pd.AvailableTags, ForumMetadata |-> NoForumMetadata]

\* the handler returns
Return(h, why) ==
    /\ pc' = [pc EXCEPT ![h] = "done"]
    /\ loc' = [loc EXCEPT ![h].exit = why]

\* the handler returns because the requests reqs returned an error
ReturnFailed(h, why, reqs) ==
    /\ pc' = [pc EXCEPT ![h] = "done"]
    /\ loc' = [loc EXCEPT ![h].exit = why, ![h].failed = @ \cup reqs]

\* line 88: the permission check failed
checkFailedNever(r) == FALSE
checkFailed(r) == r.err

\* line 165: the user may not run the command
deniesNever(r) == FALSE
denies(r) == ~r.has

\* line 167
denialMessage(a) == Msg("denied", <<a>>)

\* line 242: no tag of the catalog matched
tagMissingNever(tagID) == FALSE
tagMissing(tagID) == tagID = ""

\* line 243
tagMissingMessage(tagName) == Msg("tag-missing", tagName)

\* line 39: the trimmed text is for the command flow
isCommandOfTable(trimmed) ==
    HasPrefix(trimmed, <<".">>) /\ lookupCommand(commandOf(trimmed)) # 0
isCommand(trimmed) == HasPrefix(trimmed, <<".">>)

\* a message arrives and lines 28-64 run: bot author, empty content, the
\* search branch, the command table
Receive(h, a, content) ==
    /\ received' = received + 1
    /\ msg' = [msg EXCEPT ![h] = [Author |-> a, Content |-> content]]
    /\ ch' = [ch EXCEPT ![h] = NoChannel]
    /\ calls' = [calls EXCEPT ![h] = <<>>]
    /\ sent' = [sent EXCEPT ![h] = <<>>]
    /\ edit' = [edit EXCEPT ![h] = NoEdit]
    /\ resultChan' = [resultChan EXCEPT ![h] = <<>>]
    /\ search' = [search EXCEPT ![h] = NoSearch]
    /\ lookups' = [lookups EXCEPT ![h] = <<>>]
    /\ embeds' = [embeds EXCEPT ![h] = <<>>]
    /\ LET trimmed == TrimSpace(content)
           cmd == lookupCommand(commandOf(trimmed))
       IN  IF authorBot(a)
           THEN /\ pc' = [pc EXCEPT ![h] = "done"]
                /\ loc' = [loc EXCEPT ![h] = [NoLocals EXCEPT !.exit = "bot"]]
           ELSE IF trimmed = <<>>
           THEN /\ pc' = [pc EXCEPT ![h] = "done"]
                /\ loc' = [loc EXCEPT ![h] = [NoLocals EXCEPT !.exit = "empty"]]
           ELSE IF ~isCommand(trimmed)
           THEN /\ pc' = [pc EXCEPT ![h] = "searchChannel"]
                /\ loc' = [loc EXCEPT ![h] = NoLocals]
           ELSE IF cmd = 0
           THEN /\ pc' = [pc EXCEPT ![h] = "done"]
                /\ loc' = [loc EXCEPT ![h] = [NoLocals EXCEPT !.exit = "unknown-command"]]
           ELSE /\ pc' = [pc EXCEPT ![h] = "channel"]
                /\ loc' = [loc EXCEPT ![h] = [NoLocals EXCEPT !.cmd = cmd]]
    /\ UNCHANGED <<watchedParents, channel, cfg, parentData>>

\* the handler's goroutine of an earlier message is over
SlotFree(h) ==
    /\ pc[h] \in {"idle", "done"}
    /\ edit[h].st \in {"none", "finished"}
    /\ search[h].st \in {"none", "done"}

\* Spec: messages arrive one after the other; an edit of an earlier message
\* may still be in flight
ReceiveNext(h) ==
    /\ received < MaxMsgs
    /\ \A g \in Handlers : pc[g] \in {"idle", "done"}
    /\ SlotFree(h)
    /\ h = "h1" \/ ~SlotFree("h1")
    /\ \E a \in Authors, content \in Contents : Receive(h, a, content)
    /\ UNCHANGED <<titleVars, perms, member, canManage, applied, requested, reconciled,
                   extractVars>>

\* SpecSearch: the messages are chat, no commands
ReceiveChat(h) ==
    /\ received < MaxMsgs
    /\ \A g \in Handlers : pc[g] \in {"idle", "done"}
    /\ SlotFree(h)
    /\ h = "h1" \/ ~SlotFree("h1")
    /\ \E a \in Authors, content \in ChatContents : Receive(h, a, content)
    /\ UNCHANGED <<titleVars, perms, member, canManage, applied, requested, reconciled,
                   extractVars>>

\* a handler that calls trySearchInMessage itself instead of starting a
\* goroutine for it, and so does not return before the search is over
SearchChannelInline(h) ==
    /\ pc[h] = "searchChannel"
    /\ calls' = [calls EXCEPT ![h] = Append(@, "Channel")]
    /\ \E ok \in BOOLEAN :
        IF ok
        THEN /\ search' = [search EXCEPT ![h] =
                    [NoSearch EXCEPT !.st = "spawned",
                                     !.ch = [ID |-> channel.ID, ParentID |-> channel.ParentID,
                                             NSFW |-> channel.NSFW]]]
             /\ pc' = [pc EXCEPT ![h] = "searching"]
             /\ UNCHANGED loc
        ELSE /\ Return(h, "search-channel-error")
             /\ UNCHANGED search
    /\ UNCHANGED <<watchedParents, channel, received, msg, ch, sent, edit, resultChan,
                   lookups, embeds, titleVars, permVars, tagVars, extractVars>>

\* lines 42-53: the search branch fetches the channel and, when that
\* worked, starts the goroutine that runs trySearchInMessage; then it returns
SearchChannel(h) ==
    /\ pc[h] = "searchChannel"
    /\ calls' = [calls EXCEPT ![h] = Append(@, "Channel")]
    /\ \E ok \in BOOLEAN :
        IF ok
        THEN /\ search' = [search EXCEPT ![h] =
                    [NoSearch EXCEPT !.st = "spawned",
                                     !.ch = [ID |-> channel.ID, ParentID |-> channel.ParentID,
                                             NSFW |-> channel.NSFW]]]
             /\ Return(h, "search-started")
        ELSE /\ Return(h, "search-channel-error")
             /\ UNCHANGED search
    /\ UNCHANGED <<watchedParents, channel, received, msg, ch, sent, edit, resultChan,
                   lookups, embeds, titleVars, permVars, tagVars, extractVars>>

\* search.go:26-37: the channel is eligible for the search
searchAllowedAlways(c, sch) == TRUE
searchAllowed(c, sch) ==
    Len(c.SearchChannels) > 0 =>
        \E k \in 1..Len(c.SearchChannels) :
            c.SearchChannels[k] = sch.ID \/ c.SearchChannels[k] = sch.ParentID

\* search.go:50-53
allowAdultAlways(sch) == TRUE
allowAdult(sch) == sch.NSFW

\* search.go:56 and 88: the grammars evaluated, in order, and the names and
\* the category of the first that yields a name
classifyBoth(text) ==
    LET a == extractNamesFromRegex("ANIME", text)
        g == extractNamesFromRegex("MANGA", text)
    IN  IF g # <<>>
        THEN [evaluated |-> <<"ANIME", "MANGA">>, names |-> g, mediaType |-> "MANGA"]
        ELSE [evaluated |-> <<"ANIME", "MANGA">>, names |-> a,
              mediaType |-> IF a # <<>> THEN "ANIME" ELSE ""]
classify(text) ==
    LET a == extractNamesFromRegex("ANIME", text)
        g == extractNamesFromRegex("MANGA", text)
    IN  IF a # <<>>
        THEN [evaluated |-> <<"ANIME">>, names |-> a, mediaType |-> "ANIME"]
        ELSE [evaluated |-> <<"ANIME", "MANGA">>, names |-> g,
              mediaType |-> IF g # <<>> THEN "MANGA" ELSE ""]

\* search.go:20-56 and 88: the gates of trySearchInMessage, then the grammars
TrySearch(h) ==
    /\ search[h].st = "spawned"
    /\ IF \/ ~cfg.SearchEnabled
          \/ ~searchAllowed(cfg, search[h].ch)
          \/ authorBot(msg[h].Author)
       THEN search' = [search EXCEPT ![h].st = "done"]
       ELSE LET c == classify(msg[h].Content)
            IN  search' = [search EXCEPT ![h].evaluated = c.evaluated,
                                         ![h].names = c.names,
                                         ![h].mediaType = c.mediaType,
                                         ![h].i = IF c.names # <<>> THEN 1 ELSE 0,
                                         ![h].st = IF c.names # <<>> THEN "lookup" ELSE "done"]
    /\ UNCHANGED <<watchedParents, channel, received, msg, pc, ch, loc, calls, sent, edit,
                   resultChan, lookups, embeds, titleVars, permVars, tagVars, extractVars>>

\* searchAniList (search.go:170-282) answers a match, no match (nil, nil)
\* or an error; a blank name is an error before any request
LookupAnswers(name) ==
    IF TrimSpace(name) = <<>> THEN {"error"} ELSE {"match", "none", "error"}

\* search.go:68 and 81: the embed of the list and of the single match
listEmbed(lines) == [kind |-> "list", lines |-> lines]
richEmbed(name) == [kind |-> "rich", lines |-> <<name>>]

\* search.go:63: a line is appended for a lookup that returned a match
keepsLineAlways(answer) == TRUE
keepsLine(answer) == answer = "match"

\* search.go:60-84 and 90-113: one call of searchAniList; after the last
\* one of a list the embed with the lines, for a single name the summary
SearchLookup(h) ==
    /\ search[h].st = "lookup"
    /\ LET sr    == search[h]
           name  == sr.names[sr.i]
           multi == Len(sr.names) > 1
           last  == sr.i = Len(sr.names)
       IN  \E answer \in LookupAnswers(name) :
            LET lines == IF multi /\ keepsLine(answer)
                         THEN Append(sr.lines, name) ELSE sr.lines
            IN  /\ lookups' = [lookups EXCEPT ![h] =
                       Append(@, [name |-> name, mediaType |-> sr.mediaType,
                                  isAdult |-> allowAdult(sr.ch), answer |-> answer])]
                /\ search' = [search EXCEPT ![h].lines = lines,
                                            ![h].i = IF last THEN sr.i ELSE sr.i + 1,
                                            ![h].st = IF last THEN "done" ELSE "lookup"]
                /\ embeds' = [embeds EXCEPT ![h] =
                       IF multi
                       THEN IF last /\ lines # <<>> THEN Append(@, listEmbed(lines)) ELSE @
                       ELSE IF answer = "match" THEN Append(@, richEmbed(name)) ELSE @]
    /\ UNCHANGED <<watchedParents, channel, received, msg, pc, ch, loc, calls, sent, edit,
                   resultChan, titleVars, permVars, tagVars, extractVars>>

\* lines 66-84: fetch the channel; it must be a thread of a watched parent
FetchChannel(h) ==
    /\ pc[h] = "channel"
    /\ calls' = [calls EXCEPT ![h] = Append(@, "Channel")]
    /\ \E ok \in BOOLEAN :
        IF ~ok
        THEN ReturnFailed(h, "channel-error", {"Channel"}) /\ UNCHANGED ch
        ELSE /\ ch' = [ch EXCEPT ![h] =
                        [ID |-> channel.ID, Type |-> channel.Type,
                         ParentID |-> channel.ParentID, GuildID |-> channel.GuildID,
                         Name |-> channel.Name]]
             /\ IF ~isThreadChannel(channel)
                THEN Return(h, "not-thread")
                ELSE IF /\ watchedParents # {}
                        /\ (channel.ParentID = "" \/ channel.ParentID \notin watchedParents)
                THEN Return(h, "not-watched")
                ELSE pc' = [pc EXCEPT ![h] = "permission"] /\ UNCHANGED loc
    /\ UNCHANGED <<watchedParents, channel, received, msg, sent, edit, resultChan,
                   titleVars, permVars, tagVars, extractVars, searchVars>>

\* lines 86-171: userCanManagePosts with its one or two fetches, then the
\* list-tags helper (its key is not in commandConfig) and the denial
CheckPermission_h(h) ==
    /\ pc[h] = "permission"
    /\ \E permsErr \in BOOLEAN, memberErr \in BOOLEAN :
        LET a == msg[h].Author
            r == userCanManagePosts(cfg,
                     [err |-> permsErr, perms |-> authorPerms(a)],
                     [err |-> memberErr, Roles |-> authorRoles(a)])
            fetches == IF ~permsErr /\ Len(cfg.AllowedRoleIDs) > 0
                       THEN <<"UserChannelPermissions", "GuildMember">>
                       ELSE <<"UserChannelPermissions">>
            failed  == IF ~r.err THEN {}
                       ELSE IF permsErr THEN {"UserChannelPermissions"} ELSE {"GuildMember"}
        IN  /\ calls' = [calls EXCEPT ![h] = @ \o fetches]
            /\ IF checkFailed(r)
               THEN /\ pc' = [pc EXCEPT ![h] = "done"]
                    /\ loc' = [loc EXCEPT ![h].err = TRUE, ![h].exit = "permission-error",
                                          ![h].failed = failed]
                    /\ UNCHANGED sent
               ELSE IF commandConfig[loc[h].cmd].Key = <<"l", "i", "s", "t", "-", "t", "a", "g", "s">>
               THEN /\ pc' = [pc EXCEPT ![h] = "done"]
                    /\ loc' = [loc EXCEPT ![h].has = r.has, ![h].exit = "list-tags",
                                          ![h].failed = failed]
                    /\ sent' = [sent EXCEPT ![h] =
                           Append(@, Msg(IF r.has THEN "tag-list" ELSE "list-denied", <<>>))]
               ELSE IF denies(r)
               THEN /\ pc' = [pc EXCEPT ![h] = "done"]
                    /\ loc' = [loc EXCEPT ![h].has = r.has, ![h].exit = "denied",
                                          ![h].failed = failed]
                    /\ sent' = [sent EXCEPT ![h] = Append(@, denialMessage(a))]
               ELSE /\ pc' = [pc EXCEPT ![h] = "parent"]
                    /\ loc' = [loc EXCEPT ![h].has = r.has, ![h].failed = failed]
                    /\ UNCHANGED sent
    /\ UNCHANGED <<watchedParents, channel, received, msg, ch, edit, resultChan,
                   titleVars, permVars, tagVars, extractVars, searchVars>>

\* a handler that posts the "tag not found" message and goes on
FetchParentNoReturn(h) ==
    /\ pc[h] = "parent"
    /\ \E chanOk \in BOOLEAN, rawOk \in BOOLEAN :
        IF ~chanOk
        THEN /\ calls' = [calls EXCEPT ![h] = Append(@, "Channel(parent)")]
             /\ ReturnFailed(h, "parent-error", {"Channel(parent)"})
             /\ UNCHANGED sent
        ELSE LET parentJSON == IF rawOk THEN parentData ELSE marshalParent(parentData)
                 failed     == IF rawOk THEN {} ELSE {"GET(parent)"}
                 available  == availableTags(parentJSON)
                 tagName    == commandConfig[loc[h].cmd].TagName
                 tagID      == tagIDOf(available, tagName)
             IN  /\ calls' = [calls EXCEPT ![h] = @ \o <<"Channel(parent)", "GET(parent)">>]
                 /\ IF tagMissing(tagID)
                    THEN /\ sent' = [sent EXCEPT ![h] = Append(@, tagMissingMessage(tagName))]
                         /\ pc' = [pc EXCEPT ![h] = "thread"]
                         /\ loc' = [loc EXCEPT ![h].dotTagIDs = dotTagIDsOf(available),
                                               ![h].failed = @ \cup failed]
                    ELSE /\ pc' = [pc EXCEPT ![h] = "thread"]
                         /\ loc' = [loc EXCEPT ![h].tagID = tagID,
                                               ![h].dotTagIDs = dotTagIDsOf(available),
                                               ![h].failed = @ \cup failed]
                         /\ UNCHANGED sent
    /\ UNCHANGED <<watchedParents, channel, received, msg, ch, edit, resultChan,
                   titleVars, permVars, tagVars, extractVars, searchVars>>

\* lines 176-249: fetch the parent forum (struct, then raw JSON with the
\* struct as fallback), find the tag id and the dot-tag ids
FetchParent(h) ==
    /\ pc[h] = "parent"
    /\ \E chanOk \in BOOLEAN, rawOk \in BOOLEAN :
        IF ~chanOk
        THEN /\ calls' = [calls EXCEPT ![h] = Append(@, "Channel(parent)")]
             /\ ReturnFailed(h, "parent-error", {"Channel(parent)"})
             /\ UNCHANGED sent
        ELSE LET parentJSON == IF rawOk THEN parentData ELSE marshalParent(parentData)
                 failed     == IF rawOk THEN {} ELSE {"GET(parent)"}
                 available  == availableTags(parentJSON)
                 tagName    == commandConfig[loc[h].cmd].TagName
                 tagID      == tagIDOf(available, tagName)
             IN  /\ calls' = [calls EXCEPT ![h] = @ \o <<"Channel(parent)", "GET(parent)">>]
                 /\ IF tagMissing(tagID)
                    THEN /\ sent' = [sent EXCEPT ![h] = Append(@, tagMissingMessage(tagName))]
                         /\ pc' = [pc EXCEPT ![h] = "done"]
                         /\ loc' = [loc EXCEPT ![h].exit = "tag-missing",
                                               ![h].dotTagIDs = dotTagIDsOf(available),
                                               ![h].failed = @ \cup failed]
                    ELSE /\ pc' = [pc EXCEPT ![h] = "thread"]
                         /\ loc' = [loc EXCEPT ![h].tagID = tagID,
                                               ![h].dotTagIDs = dotTagIDsOf(available),
                                               ![h].failed = @ \cup failed]
                         /\ UNCHANGED sent
    /\ UNCHANGED <<watchedParents, channel, received, msg, ch, edit, resultChan,
                   titleVars, permVars, tagVars, extractVars, searchVars>>

\* a handler that dispatches the edit without fetching the thread, taking
\* the applied tags to be empty
FetchThreadUnread(h) ==
    /\ pc[h] = "thread"
    /\ LET newApplied == newAppliedTags(<<>>, loc[h].dotTagIDs, loc[h].tagID)
           newName    == addPrefixIfMissing(ch[h].Name, commandConfig[loc[h].cmd].Prefix)
       IN  /\ calls' = [calls EXCEPT ![h] = Append(@, "ChannelEdit")]
           /\ loc' = [loc EXCEPT ![h].newApplied = newApplied, ![h].newName = newName]
           /\ edit' = [edit EXCEPT ![h] =
                  [st |-> "calling", Name |-> newName, AppliedTags |-> newApplied,
                   res |-> NoEditResult]]
           /\ pc' = [pc EXCEPT ![h] = "select"]
    /\ UNCHANGED <<watchedParents, channel, received, msg, ch, sent, resultChan,
                   titleVars, permVars, tagVars, extractVars, searchVars>>

\* lines 251-325: fetch the thread's applied tags (raw JSON, the struct as
\* fallback), compute the new tags and the new title, start the goroutine
\* that calls ChannelEdit
FetchThread(h) ==
    /\ pc[h] = "thread"
    /\ \E rawOk \in BOOLEAN, chanOk \in BOOLEAN :
        IF ~rawOk /\ ~chanOk
        THEN /\ calls' = [calls EXCEPT ![h] = @ \o <<"GET(thread)", "Channel(thread)">>]
             /\ ReturnFailed(h, "thread-error", {"GET(thread)", "Channel(thread)"})
             /\ UNCHANGED edit
        ELSE LET newApplied == newAppliedTags(channel.AppliedTags, loc[h].dotTagIDs,
                                              loc[h].tagID)
                 newName    == addPrefixIfMissing(ch[h].Name,
                                                  commandConfig[loc[h].cmd].Prefix)
             IN  /\ calls' = [calls EXCEPT ![h] =
                        @ \o (IF rawOk THEN <<"GET(thread)">>
                              ELSE <<"GET(thread)", "Channel(thread)">>)
                          \o <<"ChannelEdit">>]
                 /\ loc' = [loc EXCEPT ![h].applied = channel.AppliedTags,
                                       ![h].newApplied = newApplied,
                                       ![h].newName = newName,
                                       ![h].failed = @ \cup (IF rawOk THEN {}
                                                             ELSE {"GET(thread)"})]
                 /\ edit' = [edit EXCEPT ![h] =
                        [st |-> "calling", Name |-> newName, AppliedTags |-> newApplied,
                         res |-> NoEditResult]]
                 /\ pc' = [pc EXCEPT ![h] = "select"]
    /\ UNCHANGED <<watchedParents, channel, received, msg, ch, sent, resultChan,
                   titleVars, permVars, tagVars, extractVars, searchVars>>

\* line 315 at Discord: the edit is applied, or refused with an error
EditServer(h) ==
    /\ edit[h].st = "calling"
    /\ \E res \in EditResults :
        /\ edit' = [edit EXCEPT ![h].st = "returned", ![h].res = res]
        /\ channel' = IF res.ok
                      THEN [channel EXCEPT !.Name = edit[h].Name,
                                           !.AppliedTags = edit[h].AppliedTags]
                      ELSE channel
    /\ UNCHANGED <<watchedParents, received, msg, pc, ch, loc, calls, sent, resultChan,
                   titleVars, permVars, tagVars, extractVars, searchVars>>

\* line 311: make(chan editResult, 1)
resultChanCap == 1

\* a send on an unbuffered channel: it proceeds only while the handler is in
\* its select
canSendUnbuffered(h) == pc[h] = "select" /\ resultChan[h] = <<>>

\* line 324: a send on the buffered channel proceeds while the buffer has room
canSend(h) == Len(resultChan[h]) < resultChanCap

\* line 324: the goroutine puts its result in the channel (capacity 1) and ends
EditDeliver(h) ==
    /\ edit[h].st = "returned"
    /\ canSend(h)
    /\ resultChan' = [resultChan EXCEPT ![h] = Append(@, edit[h].res)]
    /\ edit' = [edit EXCEPT ![h].st = "finished"]
    /\ UNCHANGED <<watchedParents, channel, received, msg, pc, ch, loc, calls, sent,
                   titleVars, permVars, tagVars, extractVars, searchVars>>

\* a handler that dispatches the edit again after a failure
SelectResultRetry(h) ==
    /\ pc[h] = "select"
    /\ resultChan[h] # <<>>
    /\ LET res == Head(resultChan[h])
       IN  /\ resultChan' = [resultChan EXCEPT ![h] = Tail(@)]
           /\ IF res.ok
              THEN /\ sent' = [sent EXCEPT ![h] = Append(@, Msg("updated", loc[h].newName))]
                   /\ Return(h, "updated")
                   /\ UNCHANGED <<calls, edit>>
              ELSE /\ calls' = [calls EXCEPT ![h] = Append(@, "ChannelEdit")]
                   /\ edit' = [edit EXCEPT ![h].st = "calling", ![h].res = NoEditResult]
                   /\ UNCHANGED <<sent, pc, loc>>
    /\ UNCHANGED <<watchedParents, channel, received, msg, ch,
                   titleVars, permVars, tagVars, extractVars, searchVars>>

\* lines 330-333 and 342-402: the select takes the result; confirmation or
\* the message for the error
SelectResult(h) ==
    /\ pc[h] = "select"
    /\ resultChan[h] # <<>>
    /\ LET res == Head(resultChan[h])
       IN  /\ resultChan' = [resultChan EXCEPT ![h] = Tail(@)]
           /\ IF res.ok
              THEN /\ sent' = [sent EXCEPT ![h] = Append(@, Msg("updated", loc[h].newName))]
                   /\ Return(h, "updated")
              ELSE /\ sent' = [sent EXCEPT ![h] = Append(@, failureMessage(res))]
                   /\ Return(h, "rejected")
    /\ UNCHANGED <<watchedParents, channel, received, msg, ch, calls, edit,
                   titleVars, permVars, tagVars, extractVars, searchVars>>

\* a handler that posts the timeout message and keeps waiting for the result
SelectTimeoutKeepsWaiting(h) ==
    /\ pc[h] = "select"
    /\ loc[h].exit = ""
    /\ sent' = [sent EXCEPT ![h] = Append(@, Msg("timeout", <<>>))]
    /\ loc' = [loc EXCEPT ![h].exit = "timeout"]
    /\ UNCHANGED <<watchedParents, channel, received, msg, pc, ch, calls, edit, resultChan,
                   titleVars, permVars, tagVars, extractVars, searchVars>>

\* a select without the time.After case: the deadline never fires
SelectNoDeadline(h) ==
    /\ pc[h] = "select"
    /\ FALSE
    /\ UNCHANGED vars

\* lines 334-339: the 15 seconds are over first
SelectTimeout(h) ==
    /\ pc[h] = "select"
    /\ sent' = [sent EXCEPT ![h] = Append(@, Msg("timeout", <<>>))]
    /\ Return(h, "timeout")
    /\ UNCHANGED <<watchedParents, channel, received, msg, ch, calls, edit, resultChan,
                   titleVars, permVars, tagVars, extractVars, searchVars>>

(***************************************************************************)
(* Spec: the command flow on a bounded guild.                              *)
(***************************************************************************)
NameDupX == <<"[", "D", "u", "p", "l", "i", "c", "a", "t", "e", "]", " ", "x">>

SpecConfigs ==
    {[AllowedRoleIDs |-> <<>>, AllowedPermissions |-> <<>>,
      SearchEnabled |-> TRUE, SearchChannels |-> <<>>],
     [AllowedRoleIDs |-> <<"r1">>, AllowedPermissions |-> <<>>,
      SearchEnabled |-> TRUE, SearchChannels |-> <<>>]}

\* a thread of forum1, a private thread of forum2, a text channel, an
\* announcement thread
ChannelKinds ==
    {[Type |-> ChannelTypeGuildPublicThread, ParentID |-> "forum1"],
     [Type |-> ChannelTypeGuildPrivateThread, ParentID |-> "forum2"],
     [Type |-> ChannelTypeGuildText, ParentID |-> ""],
     [Type |-> ChannelTypeGuildNewsThread, ParentID |-> "forum1"]}

SpecChannels ==
    {[ID |-> "c1", Type |-> k.Type, ParentID |-> k.ParentID, GuildID |-> "g1",
      Name |-> n, AppliedTags |-> ap, NSFW |-> FALSE] :
        k \in ChannelKinds, n \in {<<"x">>, NameDupX}, ap \in {<<>>, <<"t2", "t3">>}}

\* the catalog with every tag, the same under forum_metadata, and a catalog
\* without ".Solved"
SpecPayloads ==
    {[AvailableTags |-> catalogOf(<<TagSolved, TagDuplicate, NameBug>>),
      ForumMetadata |-> NoForumMetadata],
     [AvailableTags |-> <<>>,
      ForumMetadata |-> [present |-> TRUE,
                         AvailableTags |-> catalogOf(<<TagSolved, TagDuplicate, NameBug>>)]],
     [AvailableTags |-> catalogOf(<<NameNoDotSolved, TagDuplicate, NameBug>>),
      ForumMetadata |-> NoForumMetadata]}

Init ==
    /\ cfg \in SpecConfigs
    /\ watchedParents \in {{}, {"forum1"}}
    /\ channel \in SpecChannels
    /\ parentData \in SpecPayloads
    /\ IdleHandlers
    /\ IdleTitle
    /\ perms = 0 /\ member = [Roles |-> <<>>] /\ canManage = NoResult
    /\ applied = <<>> /\ requested = 0 /\ reconciled = NoResult
    /\ IdleExtract

Next ==
    \E h \in Handlers :
        \/ ReceiveNext(h)
        \/ SearchChannel(h)
        \/ TrySearch(h)
        \/ SearchLookup(h)
        \/ FetchChannel(h)
        \/ CheckPermission_h(h)
        \/ FetchParent(h)
        \/ FetchThread(h)
        \/ EditServer(h)
        \/ EditDeliver(h)
        \/ SelectResult(h)
        \/ SelectTimeout(h)

Spec == Init /\ [][Next]_vars

\* the handler's goroutine keeps running: when its select can take a case
\* (the result is in the channel, or the 15 seconds of time.After are over)
\* it takes one. Nothing is assumed about Discord answering the edit, nor
\* about the earlier remote calls returning.
SpecLive == Spec /\ \A h \in Handlers : WF_vars(SelectResult(h) \/ SelectTimeout(h))

(***************************************************************************)
(* SpecSearch: the search flow under every search configuration.           *)
(***************************************************************************)
SearchChannelLists == {<<>>, <<"c1">>, <<"forum1">>, <<"c9">>, <<"c9", "forum1">>}

SearchConfigs ==
    {[AllowedRoleIDs |-> <<>>, AllowedPermissions |-> <<>>,
      SearchEnabled |-> e, SearchChannels |-> sc] :
        e \in BOOLEAN, sc \in SearchChannelLists}

\* a thread of forum1 and a text channel, each flagged NSFW or not
SearchPlaces ==
    {[ID |-> "c1", Type |-> k.Type, ParentID |-> k.ParentID, GuildID |-> "g1",
      Name |-> <<"x">>, AppliedTags |-> <<>>, NSFW |-> n] :
        k \in {[Type |-> ChannelTypeGuildPublicThread, ParentID |-> "forum1"],
               [Type |-> ChannelTypeGuildText, ParentID |-> ""]},
        n \in BOOLEAN}

InitSearch ==
    /\ cfg \in SearchConfigs
    /\ watchedParents = {}
    /\ channel \in SearchPlaces
    /\ IdleHandlers
    /\ IdleTitle
    /\ perms = 0 /\ member = [Roles |-> <<>>] /\ canManage = NoResult
    /\ IdleTags
    /\ IdleExtract

NextSearch ==
    \E h \in Handlers :
        \/ ReceiveChat(h)
        \/ SearchChannel(h)
        \/ TrySearch(h)
        \/ SearchLookup(h)

SpecSearch == InitSearch /\ [][NextSearch]_vars

(***************************************************************************)
(* SpecConcurrent: two messages in the same thread whose handlers overlap. *)
(* discordgo runs onMessageCreate in a goroutine of its own per event, so  *)
(* the steps of the two handlers, of their edit goroutines and of their    *)
(* search goroutines interleave freely.                                    *)
(***************************************************************************)
ConcurrentContents == {ContentSolved, ContentDuplicateArgs, ContentChat}

\* the thread carries the Duplicate prefix and tag and one unmanaged tag; the
\* forum's catalog comes under forum_metadata
ConcurrentThread ==
    [ID |-> "c1", Type |-> ChannelTypeGuildPublicThread, ParentID |-> "forum1",
     GuildID |-> "g1", Name |-> NameDupX, AppliedTags |-> <<"t2", "t3">>, NSFW |-> FALSE]

InitConcurrent ==
    /\ cfg = [AllowedRoleIDs |-> <<>>, AllowedPermissions |-> <<>>,
              SearchEnabled |-> TRUE, SearchChannels |-> <<>>]
    /\ watchedParents = {}
    /\ channel = ConcurrentThread
    /\ parentData =
           [AvailableTags |-> <<>>,
            ForumMetadata |-> [present |-> TRUE,
                               AvailableTags |-> catalogOf(<<TagSolved, TagDuplicate, NameBug>>)]]
    /\ IdleHandlers
    /\ IdleTitle
    /\ perms = 0 /\ member = [Roles |-> <<>>] /\ canManage = NoResult
    /\ applied = <<>> /\ requested = 0 /\ reconciled = NoResult
    /\ IdleExtract

\* a message by the moderator arrives while the handler of the other message
\* may be anywhere in its flow
ReceiveConcurrent(h) ==
    /\ pc[h] = "idle"
    /\ \E content \in ConcurrentContents : Receive(h, "mod", content)
    /\ UNCHANGED <<titleVars, perms, member, canManage, applied, requested, reconciled,
                   extractVars>>

NextConcurrent ==
    \E h \in Handlers :
        \/ ReceiveConcurrent(h)
        \/ SearchChannel(h)
        \/ TrySearch(h)
        \/ SearchLookup(h)
        \/ FetchChannel(h)
        \/ CheckPermission_h(h)
        \/ FetchParent(h)
        \/ FetchThread(h)
        \/ EditServer(h)
        \/ EditDeliver(h)
        \/ SelectResult(h)
        \/ SelectTimeout(h)

SpecConcurrent == InitConcurrent /\ [][NextConcurrent]_vars

(***************************************************************************)
(* Claims about the command flow (Spec).                                   *)
(***************************************************************************)
InSeq(x, s) == \E i \in 1..Len(s) : s[i] = x

\* the permission check of handler h has returned
PermissionChecked(h) == InSeq("UserChannelPermissions", calls[h])

\* the check answered "not authorized" for a command of the table
Unauthorized(h) ==
    /\ PermissionChecked(h)
    /\ pc[h] # "permission"
    /\ loc[h].cmd # 0
    /\ ~loc[h].err
    /\ ~loc[h].has

\* the handler of h has not dispatched a thread edit
NoEditDispatched(h) == ~InSeq("ChannelEdit", calls[h]) /\ edit[h] = NoEdit

\* C3: when the permission check reports the author of a recognized command
\* in an eligible thread as not authorized, the handler is over, it has
\* dispatched no thread edit, and the one message it posted is the denial
\* that names the author.
C3_UnauthorizedDenied ==
    \A h \in Handlers :
        Unauthorized(h) =>
            /\ pc[h] = "done"
            /\ NoEditDispatched(h)
            /\ sent[h] = <<Msg("denied", <<msg[h].Author>>)>>

\* C3 witness: a guest's command in a thread was denied
C3_Witness ==
    \E h \in Handlers :
        /\ Unauthorized(h)
        /\ msg[h].Author = "guest"
        /\ isThreadChannel(ch[h])
        /\ loc[h].exit = "denied"
        /\ Len(sent[h]) = 1

\* the handler of h has read the parent's catalog
CatalogRead(h) == InSeq("GET(parent)", calls[h])

\* no tag of the parent's catalog has the command's tag name, compared
\* without regard to case
NoCatalogMatch(h) ==
    LET cat == availableTags(parentData)
    IN  \A i \in 1..Len(cat) :
            ~EqualFold(cat[i].Name, commandConfig[loc[h].cmd].TagName)

\* C4: when an authorized user's command names a tag that no tag of the
\* parent's catalog matches, the handler is over, it has dispatched no
\* thread edit, and the one message it posted is the "tag not found" message
\* carrying the expected tag name.
C4_TagNotFound ==
    \A h \in Handlers :
        (CatalogRead(h) /\ loc[h].has /\ NoCatalogMatch(h)) =>
            /\ pc[h] = "done"
            /\ NoEditDispatched(h)
            /\ sent[h] = <<Msg("tag-missing", commandConfig[loc[h].cmd].TagName)>>

\* C4 witness: the moderator's .solved in a forum whose catalog has no
\* ".Solved" tag
C4_Witness ==
    \E h \in Handlers :
        /\ CatalogRead(h)
        /\ loc[h].has
        /\ NoCatalogMatch(h)
        /\ commandConfig[loc[h].cmd].TagName = TagSolved
        /\ Len(availableTags(parentData)) > 0
        /\ loc[h].exit = "tag-missing"

\* the trimmed text of the message of h starts with '.'
StartsWithDot(h) == HasPrefix(TrimSpace(msg[h].Content), <<".">>)

\* the message of h is a command of the table
RecognizedCommand(h) ==
    /\ pc[h] # "idle"
    /\ StartsWithDot(h)
    /\ lookupCommand(commandOf(TrimSpace(msg[h].Content))) # 0

\* the channel is no public or private thread, or the allow-list of parents
\* is not empty and does not hold the thread's parent
OutOfScope ==
    \/ channel.Type \notin {11, 12}
    \/ watchedParents # {} /\ (channel.ParentID = "" \/ channel.ParentID \notin watchedParents)

\* C11: a recognized command by a bot author, or in a channel that is no
\* public or private thread, or in a thread whose parent is empty or not in
\* a non-empty allow-list, causes no permission lookup, no message and no
\* thread edit, whoever the author is.
C11_ScopeRejectionSilent ==
    \A h \in Handlers :
        (RecognizedCommand(h) /\ (msg[h].Author = "bot" \/ OutOfScope)) =>
            /\ ~InSeq("UserChannelPermissions", calls[h])
            /\ ~InSeq("GuildMember", calls[h])
            /\ sent[h] = <<>>
            /\ NoEditDispatched(h)

\* C11 witness: the moderator's command in a thread of a forum that is not
\* watched was dropped after the channel fetch
C11_Witness ==
    \E h \in Handlers :
        /\ RecognizedCommand(h)
        /\ msg[h].Author = "mod"
        /\ channel.Type = 12
        /\ watchedParents = {"forum1"}
        /\ channel.ParentID = "forum2"
        /\ pc[h] = "done"
        /\ calls[h] = <<"Channel">>

\* the handler of h took the deadline branch of the select
DeadlineElapsed(h) == loc[h].exit = "timeout"

\* C13: when the deadline elapses before the edit's result is taken, the
\* handler has ended and the timeout message is the only message of that
\* command, then and ever after: neither the confirmation nor a failure
\* message follows when the edit completes later.
C13_TimeoutOnly ==
    \A h \in Handlers :
        DeadlineElapsed(h) =>
            /\ pc[h] = "done"
            /\ sent[h] = <<Msg("timeout", <<>>)>>

\* C13 witness: the deadline elapsed, then the edit completed and its result
\* was put in the buffered channel, where nobody takes it
C13_Witness ==
    \E h \in Handlers :
        /\ DeadlineElapsed(h)
        /\ edit[h].st = "finished"
        /\ Len(resultChan[h]) = 1
        /\ Len(sent[h]) = 1

\* how many times x occurs in s
Occurrences(x, s) == Cardinality({i \in 1..Len(s) : s[i] = x})

\* the handler of h took a 429 response that carries headers from the select
RateLimited(h) ==
    /\ loc[h].exit = "rejected"
    /\ edit[h].res.rest
    /\ edit[h].res.status = 429
    /\ edit[h].res.headers

PrimaryNames(h) == extractNamesFromRegex("ANIME", msg[h].Content)

\* C12: a message is handled by at most one flow.  A message whose trimmed
\* text starts with '.' never starts the search: no grammar is evaluated, no
\* lookup is issued and no embed is posted, also when its key is not in the
\* table and it holds a backtick or brace span.  A message that does not
\* start with '.' never enters the command flow: no permission lookup, no
\* catalog or thread read, no message of the command flow and no thread edit.
C12_OneFlow ==
    \A h \in Handlers :
        pc[h] # "idle" =>
            /\ StartsWithDot(h) =>
                   search[h] = NoSearch /\ lookups[h] = <<>> /\ embeds[h] = <<>>
            /\ ~StartsWithDot(h) =>
                   /\ NoEditDispatched(h)
                   /\ \A k \in 1..Len(calls[h]) : calls[h][k] = "Channel"
                   /\ Len(calls[h]) <= 1
                   /\ loc[h].cmd = 0
                   /\ sent[h] = <<>>

\* C12 witness: a message that starts with '.', has a key that is not in
\* the table and holds a backtick span was dropped without a lookup
C12_Witness ==
    \E h \in Handlers :
        /\ pc[h] = "done"
        /\ StartsWithDot(h)
        /\ ~RecognizedCommand(h)
        /\ msg[h].Author # "bot"
        /\ PrimaryNames(h) # <<>>
        /\ lookups[h] = <<>>

\* the six keys of the command table, as the table's source text spells them
SixKeys ==
    { <<"s", "o", "l", "v", "e", "d">>, <<"a", "w", "a", "r", "e">>,
      <<"d", "u", "p", "l", "i", "c", "a", "t", "e">>, <<"f", "a", "l", "s", "e">>,
      <<"k", "n", "o", "w", "n">>, <<"w", "r", "o", "n", "g">> }

\* the first token of the trimmed content of h, lower-cased and with one
\* leading '.' removed, is none of the six keys
UnknownKey(h) ==
    /\ pc[h] # "idle"
    /\ TrimSpace(msg[h].Content) # <<>>
    /\ commandOf(TrimSpace(msg[h].Content)) \notin SixKeys

\* the handler of h and its goroutines have fetched nothing, looked nothing
\* up, posted nothing and dispatched no edit
Silent(h) ==
    /\ calls[h] = <<>>
    /\ sent[h] = <<>>
    /\ lookups[h] = <<>>
    /\ embeds[h] = <<>>
    /\ NoEditDispatched(h)

C22_DeliveryNeverBlocks ==
    \A h \in Handlers :
        /\ edit[h].st = "returned" => ENABLED EditDeliver(h)
        /\ Len(resultChan[h]) <= 1
        /\ edit[h].st = "finished" /\ DeadlineElapsed(h) =>
               /\ resultChan[h] = <<edit[h].res>>
               /\ sent[h] = <<Msg("timeout", <<>>)>>
               /\ pc[h] = "done"

\* C22 witness: the edit returned after the handler had timed out, and its
\* goroutine delivered the result and ended
C22_Witness ==
    \E h \in Handlers :
        /\ DeadlineElapsed(h)
        /\ edit[h].st = "finished"
        /\ resultChan[h] = <<edit[h].res>>
        /\ sent[h] = <<Msg("timeout", <<>>)>>

\* the handler of h ended with the confirmation, a message for a rejected
\* write, or the timeout message
Terminal(h) ==
    /\ pc[h] = "done"
    /\ \/ loc[h].exit = "updated" /\ sent[h] = <<Msg("updated", loc[h].newName)>>
       \/ loc[h].exit = "rejected" /\ Len(sent[h]) = 1
                                   /\ sent[h][1].kind \notin {"updated", "timeout"}
       \/ loc[h].exit = "timeout" /\ sent[h] = <<Msg("timeout", <<>>)>>

\* C23: a handler that has dispatched the edit and waits in its select always
\* reaches a terminal state (confirmation, message for a rejected write, or
\* timeout message), also in the behaviours where the edit never returns.
C23_HandlerTerminates ==
    \A h \in Handlers : (pc[h] = "select") ~> Terminal(h)

\* C23 witness: the handler ended with the timeout message while the edit
\* had not returned
C23_Witness ==
    \E h \in Handlers :
        /\ Terminal(h)
        /\ loc[h].exit = "timeout"
        /\ edit[h].st = "calling"

\* x occurs in s before y does
Before(x, y, s) == \E i, j \in 1..Len(s) : i < j /\ s[i] = x /\ s[j] = y

\* the handler of h has dispatched a thread edit
EditDispatched(h) == InSeq("ChannelEdit", calls[h]) \/ edit[h] # NoEdit

\* the remote reads of the command flow
CommandReads ==
    {"Channel", "UserChannelPermissions", "Channel(parent)", "GET(parent)", "GET(thread)"}

\* C24: when a handler has dispatched the thread edit, its channel fetch, its
\* permission lookup, its fetch of the parent's tag catalog and its fetch of
\* the thread's applied tags all came before the dispatch, which is its last
\* remote call; the written title is the prefix applied to the name its own
\* channel fetch returned, and the written tag list is computed from the
\* applied tags its own thread fetch returned and the tag ids its own catalog
\* fetch returned, whatever another handler did to the thread in between.
C24_ReadsBeforeWrite ==
    \A h \in Handlers :
        EditDispatched(h) =>
            /\ \A r \in CommandReads : Before(r, "ChannelEdit", calls[h])
            /\ calls[h][Len(calls[h])] = "ChannelEdit"
            /\ edit[h].Name =
                   addPrefixIfMissing(ch[h].Name, commandConfig[loc[h].cmd].Prefix)
            /\ edit[h].AppliedTags =
                   newAppliedTags(loc[h].applied, loc[h].dotTagIDs, loc[h].tagID)
            /\ \E pd \in {parentData, marshalParent(parentData)} :
                   /\ loc[h].tagID =
                          tagIDOf(availableTags(pd), commandConfig[loc[h].cmd].TagName)
                   /\ loc[h].dotTagIDs = dotTagIDsOf(availableTags(pd))

\* C24 witness: a handler dispatched its edit after the other handler's edit
\* had changed the thread's name since this handler's channel fetch
C24_Witness ==
    \E h \in Handlers :
        /\ EditDispatched(h)
        /\ edit[h].st = "calling"
        /\ ch[h].Name # channel.Name
        /\ loc[h].applied = channel.AppliedTags
        /\ loc[h].applied # <<>>

\* the remote reads that follow the permission gate
StateFetches == {"Channel(parent)", "GET(parent)", "GET(thread)", "Channel(thread)"}

\* C25: the gates are passed in the order scope, permission, remote-state
\* fetch. A permission lookup is made only after the channel fetch found the
\* thread in scope; the parent's catalog and the thread's applied tags are
\* fetched only after the permission lookup answered "authorized"; and for a
\* user who is not authorized the handler makes neither fetch and its one
\* message is the denial, also when the command's tag is missing from the
\* catalog.
C25_GateOrder ==
    \A h \in Handlers :
        /\ PermissionChecked(h) =>
               /\ calls[h][1] = "Channel"
               /\ ~OutOfScope
        /\ (\E f \in StateFetches : InSeq(f, calls[h])) =>
               /\ Before("UserChannelPermissions", "Channel(parent)", calls[h])
               /\ loc[h].has /\ ~loc[h].err
        /\ Unauthorized(h) =>
               /\ \A f \in StateFetches : ~InSeq(f, calls[h])
               /\ sent[h] = <<denialMessage(msg[h].Author)>>
               /\ \A k \in 1..Len(sent[h]) : sent[h][k].kind # "tag-missing"

\* C25 witness: a guest's ".solved" under a forum whose catalog has no
\* ".Solved" tag was answered with the denial
C25_Witness ==
    \E h \in Handlers :
        /\ Unauthorized(h)
        /\ msg[h].Author = "guest"
        /\ commandConfig[loc[h].cmd].Key = KeySolved
        /\ NoCatalogMatch(h)
        /\ pc[h] = "done"
        /\ sent[h] = <<Msg("denied", <<"guest">>)>>

\* the requests behind the permission check, and the reads of the command flow
PermissionFetches == {"UserChannelPermissions", "GuildMember"}
FlowFetches == {"Channel", "Channel(parent)", "GET(parent)", "GET(thread)", "Channel(thread)"}

\* C26 as stated: a failed permission or member fetch leads to no denial and
\* no edit, and a failed fetch of the command flow (channel, parent catalog,
\* thread applied tags) leads to no edit.
C26_AnyFailureAborts ==
    \A h \in Handlers :
        /\ loc[h].failed \cap PermissionFetches # {} =>
               /\ \A k \in 1..Len(sent[h]) : sent[h][k].kind # "denied"
               /\ NoEditDispatched(h)
        /\ loc[h].failed \cap FlowFetches # {} => NoEditDispatched(h)

\* the requests whose failure leaves the handler without the data: the raw
\* request for the parent has the fetched struct as fallback, and the raw
\* request for the thread has s.Channel as fallback
FatalFetches == {"Channel", "Channel(parent)", "Channel(thread)"}

\* C26: a failed lookup is no denial and leads to no mutation. When the
\* permission fetch or, in role mode, the member fetch fails, the handler
\* ends with no message (so no denial) and no edit. When the channel fetch,
\* the fetch of the parent struct, or both requests for the thread (the raw
\* one and its fallback) fail, the handler ends with no message and no edit.
\* A raw request for the parent or the thread that fails alone is replaced by
\* its fallback and the command goes on.
C26_LookupFailureAborts ==
    \A h \in Handlers :
        /\ loc[h].failed \cap PermissionFetches # {} =>
               /\ pc[h] = "done"
               /\ sent[h] = <<>>
               /\ NoEditDispatched(h)
        /\ loc[h].failed \cap FatalFetches # {} =>
               /\ pc[h] = "done"
               /\ sent[h] = <<>>
               /\ NoEditDispatched(h)
        /\ loc[h].failed \subseteq {"GET(parent)", "GET(thread)"} /\ loc[h].failed # {} =>
               \/ pc[h] \in {"thread", "select"}
               \/ loc[h].exit \in {"tag-missing", "updated", "rejected", "timeout"}

\* C26 witness: in role mode the member fetch failed and the handler ended
\* without a message and without an edit
C26_Witness ==
    \E h \in Handlers :
        /\ loc[h].failed = {"GuildMember"}
        /\ cfg.AllowedRoleIDs # <<>>
        /\ pc[h] = "done"
        /\ sent[h] = <<>>
        /\ NoEditDispatched(h)

\* the select of h received the edit's result (before the deadline fired)
ResultTaken(h) == edit[h].st = "finished" /\ resultChan[h] = <<>>

\* the kind of failure message the claim gives for an error result
KindFor(res) ==
    IF ~res.rest THEN "failed-unknown"
    ELSE IF res.status = 429 THEN "throttled"
    ELSE IF res.status = 403 THEN "forbidden"
    ELSE IF res.status = 404 THEN "not-found"
    ELSE IF res.status \in {500, 502, 503, 504} THEN "server-error"
    ELSE "failed"

\* C27: when the handler received an error result of the thread edit, it
\* posted exactly one message, the failure message for the reported status
\* (429 throttled, 403 forbidden, 404 not found, 500/502/503/504 server-side,
\* any other status generic with the status number, a non-REST error
\* generic), and no confirmation; the confirmation is posted only when the
\* handler received a success result, and then it is the only message.
C27_FailureByStatus ==
    \A h \in Handlers :
        /\ ResultTaken(h) /\ ~edit[h].res.ok =>
               /\ pc[h] = "done"
               /\ Len(sent[h]) = 1
               /\ sent[h][1].kind = KindFor(edit[h].res)
               /\ sent[h][1].kind = "failed" => sent[h][1].text = <<StatusText(edit[h].res.status)>>
        /\ (\E k \in 1..Len(sent[h]) : sent[h][k].kind = "updated") =>
               /\ ResultTaken(h)
               /\ edit[h].res.ok
               /\ sent[h] = <<Msg("updated", edit[h].Name)>>
        /\ ResultTaken(h) /\ edit[h].res.ok => sent[h] = <<Msg("updated", edit[h].Name)>>

\* C27 witness: the edit was refused with 503 and the handler posted the
\* server-side message
C27_Witness ==
    \E h \in Handlers :
        /\ ResultTaken(h)
        /\ edit[h].res.rest /\ edit[h].res.status = 503
        /\ sent[h] = <<Msg("server-error", <<>>)>>
        /\ pc[h] = "done"

\* a lookup of the search goroutine of h is pending or still to come
LookupPending(h) == search[h].st \in {"spawned", "lookup"}

\* the handler of g is in the command flow, before its select
InCommandFlow(g) == pc[g] \in {"channel", "permission", "parent", "thread"}

\* C28: a catalog lookup does not hold up message processing. The handler of
\* a message that is no command has returned, with no message posted, before
\* its search goroutine takes its first step, so before any lookup; while a
\* lookup of one message is pending, the handler of another message can take
\* its next step of the command flow and its select can fire; and a message
\* whose lookups all failed gets no embed and no message.
C28_LookupDoesNotBlock ==
    \A h \in Handlers :
        /\ search[h].st # "none" =>
               /\ pc[h] = "done"
               /\ loc[h].exit = "search-started"
               /\ sent[h] = <<>>
        /\ \A g \in Handlers \ {h} :
               LookupPending(h) =>
                   /\ InCommandFlow(g) =>
                          ENABLED (FetchChannel(g) \/ CheckPermission_h(g)
                                   \/ FetchParent(g) \/ FetchThread(g))
                   /\ pc[g] = "select" => ENABLED SelectTimeout(g)
                   /\ pc[g] = "select" /\ resultChan[g] # <<>> => ENABLED SelectResult(g)
        /\ (lookups[h] # <<>> /\ \A k \in 1..Len(lookups[h]) : lookups[h][k].answer = "error") =>
               embeds[h] = <<>> /\ sent[h] = <<>>

\* C28 witness: the handler of a chat message has returned and its lookup is
\* pending with no answer yet, while the command of the other message ran to
\* its confirmation
C28_Witness ==
    \E h \in Handlers : \E g \in Handlers \ {h} :
        /\ msg[h].Content = ContentChat
        /\ pc[h] = "done"
        /\ search[h].st = "lookup"
        /\ lookups[h] = <<>>
        /\ RecognizedCommand(g)
        /\ loc[g].exit = "updated"
        /\ sent[g] = <<Msg("updated", edit[g].Name)>>

\* the exits of the command flow that post no message
SilentExits ==
    {"bot", "empty", "unknown-command", "channel-error", "not-thread", "not-watched",
     "permission-error", "parent-error", "thread-error"}

\* the kinds of message for a rejected write
RejectedKinds ==
    {"throttled", "forbidden", "not-found", "server-error", "failed", "failed-unknown"}

\* C29: a command message gets at most one feedback message on every path.
\* The handler posts nothing before it ends; it ends with exactly one message
\* at the gate it stopped at (denial, tag not found, timeout, rejected write,
\* confirmation) and with none on a silent exit (bot author, scope
\* rejection, unrecognized key, a remote read that made it return); and an
\* edit that completes after the timeout adds no message.
C29_OneFeedback ==
    \A h \in Handlers :
        StartsWithDot(h) =>
            /\ Len(sent[h]) <= 1
            /\ pc[h] # "done" => sent[h] = <<>>
            /\ pc[h] = "done" =>
                   /\ loc[h].exit \in SilentExits => sent[h] = <<>>
                   /\ loc[h].exit = "denied" => Len(sent[h]) = 1 /\ sent[h][1].kind = "denied"
                   /\ loc[h].exit = "tag-missing" =>
                          Len(sent[h]) = 1 /\ sent[h][1].kind = "tag-missing"
                   /\ loc[h].exit = "timeout" => Len(sent[h]) = 1 /\ sent[h][1].kind = "timeout"
                   /\ loc[h].exit = "rejected" =>
                          Len(sent[h]) = 1 /\ sent[h][1].kind \in RejectedKinds
                   /\ loc[h].exit = "updated" => Len(sent[h]) = 1 /\ sent[h][1].kind = "updated"
                   /\ loc[h].exit \in SilentExits
                          \cup {"denied", "tag-missing", "timeout", "rejected", "updated"}

\* C29 witness: the edit succeeded at Discord after the handler had timed
\* out, and the timeout message is still the only message
C29_Witness ==
    \E h \in Handlers :
        /\ StartsWithDot(h)
        /\ loc[h].exit = "timeout"
        /\ edit[h].st = "finished"
        /\ edit[h].res.ok
        /\ channel.Name = edit[h].Name
        /\ Len(sent[h]) = 1

(***************************************************************************)
(* Claims about the search flow (SpecSearch).                              *)
(***************************************************************************)
\* the categories of the lookups issued for the message of h
LookupTypes(h) == {lookups[h][k].mediaType : k \in 1..Len(lookups[h])}

\* C17: a message is classified into at most one category.  When the
\* primary grammar yields a candidate, every lookup of the message has
\* category ANIME and the secondary grammar is not evaluated, whatever the
\* lookups answer; MANGA lookups are issued only when the primary grammar
\* yields no candidate.
C17_OneCategory ==
    \A h \in Handlers :
        /\ PrimaryNames(h) # <<>> =>
               /\ LookupTypes(h) \subseteq {"ANIME"}
               /\ search[h].evaluated \in {<<>>, <<"ANIME">>}
        /\ PrimaryNames(h) = <<>> => LookupTypes(h) \subseteq {"MANGA"}
        /\ search[h].st = "lookup" => search[h].mediaType \in {"ANIME", "MANGA"}

\* C17 witness: a message with a brace span and an angle span; the one
\* ANIME lookup found nothing and the search ended without a MANGA lookup
C17_Witness ==
    \E h \in Handlers :
        /\ search[h].st = "done"
        /\ PrimaryNames(h) # <<>>
        /\ extractNamesFromRegex("MANGA", msg[h].Content) # <<>>
        /\ Len(lookups[h]) = 1
        /\ lookups[h][1].answer # "match"
        /\ lookups[h][1].mediaType = "ANIME"
        /\ search[h].evaluated = <<"ANIME">>

\* the names of the lookups of q that returned a match, in order
RECURSIVE MatchedNames(_)
MatchedNames(q) ==
    IF q = <<>> THEN <<>>
    ELSE (IF Head(q).answer = "match" THEN <<Head(q).name>> ELSE <<>>)
         \o MatchedNames(Tail(q))

\* the candidates of the message of h, as the search classified them
Candidates(h) == search[h].names

\* C18: for more than one candidate the search posts at most one list, and
\* once all lookups are done the list's lines are exactly the candidates
\* whose lookup returned a match, in candidate order, or nothing is posted
\* when none matched; for exactly one candidate a single rich summary is
\* posted if and only if the lookup returned a match.
C18_Rendering ==
    \A h \in Handlers :
        /\ (search[h].st = "lookup" /\ Len(Candidates(h)) > 1) => embeds[h] = <<>>
        /\ (search[h].st = "done" /\ Len(Candidates(h)) > 1) =>
               /\ [k \in 1..Len(lookups[h]) |-> lookups[h][k].name] = Candidates(h)
               /\ embeds[h] = IF MatchedNames(lookups[h]) = <<>> THEN <<>>
                              ELSE <<[kind |-> "list", lines |-> MatchedNames(lookups[h])]>>
        /\ (search[h].st = "done" /\ Len(Candidates(h)) = 1) =>
               /\ Len(lookups[h]) = 1
               /\ lookups[h][1].name = Candidates(h)[1]
               /\ embeds[h] = IF lookups[h][1].answer = "match"
                              THEN <<[kind |-> "rich", lines |-> <<Candidates(h)[1]>>]>>
                              ELSE <<>>

\* C18 witness: three candidates, the first and the third matched, the
\* second did not: one list with two lines
C18_Witness ==
    \E h \in Handlers :
        /\ search[h].st = "done"
        /\ Len(Candidates(h)) = 3
        /\ lookups[h][1].answer = "match"
        /\ lookups[h][2].answer # "match"
        /\ lookups[h][3].answer = "match"
        /\ Len(embeds[h]) = 1
        /\ Len(embeds[h][1].lines) = 2

\* C19: the adult flag of every lookup equals the NSFW flag of the channel
\* of the message; in a channel that is not NSFW it is false.
C19_AdultFollowsNSFW ==
    \A h \in Handlers :
        \A k \in 1..Len(lookups[h]) : lookups[h][k].isAdult = channel.NSFW

\* C19 witness: a lookup for a message in a channel that is not NSFW
C19_Witness ==
    \E h \in Handlers :
        /\ ~channel.NSFW
        /\ Len(lookups[h]) >= 1
        /\ ~lookups[h][1].isAdult

\* the allow-list of search channels is not empty and holds neither the
\* channel's id nor its parent's
NotInSearchChannels ==
    /\ Len(cfg.SearchChannels) > 0
    /\ \A k \in 1..Len(cfg.SearchChannels) :
           cfg.SearchChannels[k] \notin {channel.ID, channel.ParentID}

\* C20: no lookup is issued and nothing is posted for a message when the
\* search is disabled, when its author is a bot, or when the allow-list of
\* search channels is not empty and holds neither the channel's id nor its
\* parent's; with an empty allow-list the search of an enabled bot looks up
\* the candidates of a user's message in every channel.
C20_SearchGates ==
    \A h \in Handlers :
        /\ (pc[h] # "idle" /\ (~cfg.SearchEnabled \/ msg[h].Author = "bot"
                               \/ NotInSearchChannels)) =>
               lookups[h] = <<>> /\ embeds[h] = <<>> /\ sent[h] = <<>>
        /\ (/\ search[h].st = "done"
            /\ cfg.SearchEnabled
            /\ cfg.SearchChannels = <<>>
            /\ PrimaryNames(h) # <<>>) =>
               lookups[h] # <<>>

\* C20 witness: the search is enabled, the allow-list names another channel,
\* and a user's message with a backtick span ended without a lookup
C20_Witness ==
    \E h \in Handlers :
        /\ search[h].st = "done"
        /\ cfg.SearchEnabled
        /\ NotInSearchChannels
        /\ msg[h].Author = "guest"
        /\ PrimaryNames(h) # <<>>
        /\ lookups[h] = <<>>

(***************************************************************************)
(* Claims about extraction (SpecExtract).                                  *)
(***************************************************************************)
TextLink == <<"<">> \o PieceURL \o <<">">>
TextEmoji == <<"<">> \o PieceEmoji \o <<">">>

\* the only delimited span of t is an angle-bracket span holding a URL or
\* an emoji reference; plain text may precede it
OnlyLinkOrEmoji(t) ==
    \E pre \in {<<>>, <<"a">>, <<" ">>} : t \in {pre \o TextLink, pre \o TextEmoji}

\* C15: a message whose only delimited span is an angle-bracket span that
\* looks like a URL or an emoji reference yields no candidate from either
\* grammar.
C15_LinkAndEmojiSkipped ==
    (extraction.called /\ OnlyLinkOrEmoji(input)) =>
        extraction.anime = <<>> /\ extraction.manga = <<>>

\* the part of C15 that the code keeps: the primary grammar finds nothing in
\* such a message
C15_PrimarySkips ==
    (extraction.called /\ OnlyLinkOrEmoji(input)) => extraction.anime = <<>>

\* s has a byte that is not white space
HasNonSpace(s) == \E i \in 1..Len(s) : ~IsSpace(s[i])

\* C16: every candidate that extractNamesFromRegex returns, for either
\* grammar, has at least one byte that is not white space.
C16_NoBlankCandidate ==
    extraction.called =>
        /\ \A i \in 1..Len(extraction.anime) : HasNonSpace(extraction.anime[i])
        /\ \A i \in 1..Len(extraction.manga) : HasNonSpace(extraction.manga[i])

\* the part of C16 that the code keeps: no candidate is the empty string
C16_NoEmptyCandidate ==
    extraction.called =>
        /\ \A i \in 1..Len(extraction.anime) : extraction.anime[i] # <<>>
        /\ \A i \in 1..Len(extraction.manga) : extraction.manga[i] # <<>>

(***************************************************************************)
(* Claims about the title (SpecTitle).                                     *)
(***************************************************************************)
\* how many times p occurs in s
CountOcc(p, s) ==
    Cardinality({i \in 1..(Len(s) - Len(p) + 1) : SubSeq(s, i, i + Len(p) - 1) = p})

\* s starts, case-insensitively, with a managed prefix
StartsWithManaged(s) ==
    LET low == ToLower(s)
    IN  \E i \in 1..Len(knownPrefixes) : HasPrefix(low, lowerKnownPrefixes[i])

\* the text after the leading "prefix " of a written title
AfterPrefix(written, p) == DropBytes(written, Len(p) + 1)

\* C5: the same command sent twice in a row writes the same title the second
\* time as the first time: addPrefixIfMissing is idempotent for every title
\* and every managed prefix.
C5_Idempotent ==
    \A i \in 1..(Len(names) - 1) :
        prefixes[i] = prefixes[i + 1] => names[i + 1] = names[i]

\* C5 witness: a title that carried another managed prefix got the same
\* command twice.
C5_Witness ==
    /\ Len(names) = 2
    /\ prefixes[1] = prefixes[2]
    /\ StartsWithManaged(TrimSpace(origName))
    /\ ~HasPrefix(ToLower(TrimSpace(origName)), ToLower(prefixes[1]))

\* C6 as stated: after P1 then a different P2 the title contains P2 exactly
\* once and does not contain P1 anywhere.
C6_Original ==
    \A i \in 1..(Len(names) - 1) :
        prefixes[i] # prefixes[i + 1] =>
            /\ CountOcc(prefixes[i + 1], names[i + 1]) = 1
            /\ CountOcc(prefixes[i], names[i + 1]) = 0

\* C6 amended: after P1 then a different P2 the title is P2, one space and
\* the very text that followed "P1 ", and that text does not start with a
\* managed prefix: the prefix is replaced, not stacked.
C6_Replaced ==
    \A i \in 1..(Len(names) - 1) :
        prefixes[i] # prefixes[i + 1] =>
            /\ HasPrefix(names[i + 1], prefixes[i + 1] \o <<" ">>)
            /\ AfterPrefix(names[i + 1], prefixes[i + 1]) = AfterPrefix(names[i], prefixes[i])
            /\ ~StartsWithManaged(AfterPrefix(names[i + 1], prefixes[i + 1]))

\* C6 witness: two different commands in a row on a title with text.
C6_Witness ==
    /\ Len(names) = 2
    /\ prefixes[1] # prefixes[2]
    /\ AfterPrefix(names[2], prefixes[2]) # <<>>

\* text made only of managed prefixes (matched rune by rune, any case) and
\* white space
RECURSIVE OnlyManagedText(_)
OnlyManagedText(m) ==
    \/ m = <<>>
    \/ IsSpace(m[1]) /\ OnlyManagedText(Tail(m))
    \/ \E p \in ManagedPrefixes : \E n \in 1..Len(m) :
           /\ ToLower(SubSeq(m, 1, n)) = ToLower(p)
           /\ OnlyManagedText(DropBytes(m, n))

\* C7: the written title is the requested prefix, one space and a suffix of
\* the trimmed title that does not start with a managed prefix, and what was
\* removed in front of that suffix is managed prefixes and white space only.
C7_OnlyManagedStripped ==
    Len(names) >= 1 =>
        LET t    == TrimSpace(origName)
            rest == AfterPrefix(names[1], prefixes[1])
            cut  == Len(t) - Len(rest)
        IN  /\ HasPrefix(names[1], prefixes[1] \o <<" ">>)
            /\ cut >= 0
            /\ DropBytes(t, cut) = rest
            /\ ~StartsWithManaged(rest)
            /\ OnlyManagedText(SubSeq(t, 1, cut))

\* the part of C7 that the code keeps: bracketed text that is not a managed
\* prefix stays in the title
C7_HelpRetained ==
    Len(names) >= 1 =>
        CountOcc(<<"[", "H", "e", "l", "p", "!", "]">>, names[1])
            = CountOcc(<<"[", "H", "e", "l", "p", "!", "]">>, origName)

(***************************************************************************)
(* Claims about the permission check (SpecPerm).                           *)
(***************************************************************************)
\* bit (a power of two) is set in the bitmask p
HasBit(p, bit) == (p \div bit) % 2 = 1

RoleMode == Len(cfg.AllowedRoleIDs) > 0
PermissionMode == Len(cfg.AllowedRoleIDs) = 0 /\ Len(cfg.AllowedPermissions) > 0
DefaultMode == Len(cfg.AllowedRoleIDs) = 0 /\ Len(cfg.AllowedPermissions) = 0

Answered == canManage.called /\ ~canManage.err

\* C8: in default mode (no role list, no permission list) the check answers
\* authorized exactly when the bitmask has Manage Channels, Manage Roles,
\* Manage Messages or Administrator.
C8_DefaultMode ==
    (DefaultMode /\ Answered) =>
        (canManage.has <=>
            \/ HasBit(perms, PermissionManageChannels)
            \/ HasBit(perms, PermissionManageRoles)
            \/ HasBit(perms, PermissionManageMessages)
            \/ HasBit(perms, PermissionAdministrator))

\* C8 witness: default mode authorized a user whose only bit is Manage Roles.
C8_Witness ==
    /\ DefaultMode /\ Answered
    /\ perms = PermissionManageRoles
    /\ canManage.has

\* C9: with a non-empty role list the check answers authorized exactly when
\* the member has a listed role, whatever the bitmask and the permission list.
C9_RoleModeFirst ==
    (RoleMode /\ Answered) =>
        (canManage.has <=>
            {member.Roles[i] : i \in 1..Len(member.Roles)}
                \cap {cfg.AllowedRoleIDs[j] : j \in 1..Len(cfg.AllowedRoleIDs)} # {})

\* C9 witness: both lists are configured, the user is an administrator and
\* the permission list names ADMINISTRATOR, but the user has no listed role:
\* not authorized.
C9_Witness ==
    /\ RoleMode /\ Answered
    /\ cfg.AllowedPermissions = <<"ADMINISTRATOR">>
    /\ HasBit(perms, PermissionAdministrator)
    /\ ~canManage.has

\* the bit a Discord permission name stands for
BitOfName(name) ==
    CASE name = "ADMINISTRATOR"   -> PermissionAdministrator
      [] name = "MANAGE_CHANNELS" -> PermissionManageChannels
      [] name = "MANAGE_ROLES"    -> PermissionManageRoles
      [] name = "MANAGE_MESSAGES" -> PermissionManageMessages
      [] name = "KICK_MEMBERS"    -> PermissionKickMembers

\* C10: in permission-name mode the check answers authorized exactly when the
\* bitmask has the bit of at least one name of the configured list, for
\* every configured list of permission names.
C10_PermissionMode ==
    (PermissionMode /\ Answered) =>
        (canManage.has <=>
            \E i \in 1..Len(cfg.AllowedPermissions) :
                HasBit(perms, BitOfName(cfg.AllowedPermissions[i])))

\* what the code does in permission-name mode: only the four names of its
\* switch count
C10_FourNamesOnly ==
    (PermissionMode /\ Answered) =>
        (canManage.has <=>
            \E i \in 1..Len(cfg.AllowedPermissions) :
                /\ cfg.AllowedPermissions[i] # "KICK_MEMBERS"
                /\ HasBit(perms, BitOfName(cfg.AllowedPermissions[i])))

(***************************************************************************)
(* Claims about the tag reconciliation (SpecTags).                         *)
(***************************************************************************)
\* the catalog the command works with
Catalog == availableTags(parentData)

\* managed ids: ids of catalog tags whose name starts with '.'
ManagedIDs ==
    {Catalog[i].ID : i \in {j \in 1..Len(Catalog) : Catalog[j].Name[1] = "."}}

\* the catalog has a tag whose name is the command's tag name, case ignored
CatalogHasRequested ==
    \E i \in 1..Len(Catalog) :
        ToLower(Catalog[i].Name) = ToLower(commandConfig[requested].TagName)

\* the entries of q that are in S (or, with keep = FALSE, not in S), in order
RECURSIVE Restrict(_, _, _)
Restrict(q, S, keep) ==
    IF q = <<>> THEN <<>>
    ELSE IF (Head(q) \in S) = keep
         THEN <<Head(q)>> \o Restrict(Tail(q), S, keep)
         ELSE Restrict(Tail(q), S, keep)

\* C1: when the catalog has the command's tag, the list the command writes
\* holds exactly one managed id, and it is the id of the command's tag.
C1_OneManagedTag ==
    (reconciled.called /\ CatalogHasRequested) =>
        /\ reconciled.found
        /\ \E i \in 1..Len(Catalog) :
               /\ Catalog[i].ID = reconciled.tagID
               /\ ToLower(Catalog[i].Name) = ToLower(commandConfig[requested].TagName)
        /\ Restrict(reconciled.newApplied, ManagedIDs, TRUE) = <<reconciled.tagID>>

\* C1 witness: the thread carried another command's tag and the wanted tag
\* itself, and the catalog has the wanted tag.
C1_Witness ==
    /\ reconciled.called /\ reconciled.found
    /\ Len(applied) = 2
    /\ reconciled.tagID \in {applied[i] : i \in 1..Len(applied)}
    /\ \E i \in 1..Len(applied) : applied[i] \in ManagedIDs \ {reconciled.tagID}

\* C2: the unmanaged entries of the written list are the unmanaged entries
\* of the list that was read: same ids, same order, same duplicates.
C2_UnmanagedKept ==
    (reconciled.called /\ reconciled.found) =>
        Restrict(reconciled.newApplied, ManagedIDs, FALSE)
            = Restrict(applied, ManagedIDs, FALSE)

\* C2 witness: the list that was read had the same unmanaged id twice.
C2_Witness ==
    /\ reconciled.called /\ reconciled.found
    /\ Len(applied) = 2
    /\ applied[1] = applied[2]
    /\ applied[1] \notin ManagedIDs

(***************************************************************************)
(* Claims about concurrent commands (SpecConcurrent).                      *)
(***************************************************************************)
\* both handlers dispatched an edit and Discord applied both
BothApplied ==
    \A h \in Handlers : edit[h].st \in {"returned", "finished"} /\ edit[h].res.ok

\* name starts with exactly one managed prefix, and it is p: p and a blank,
\* followed by text that starts with no managed prefix in any case
OnePrefix(name, p) ==
    /\ HasPrefix(name, p \o <<" ">>)
    /\ LET rest == DropBytes(name, Len(p) + 1)
       IN  \A q \in ManagedPrefixes : ~HasPrefix(ToLower(rest), ToLower(q))

\* C30: when the two handlers ran authorized commands on the same thread and
\* both edits have been applied, under every interleaving of their reads and
\* writes, the thread has the name and the tag list that one of the two
\* wrote: the tag list holds exactly one managed tag, the name starts with
\* exactly one managed prefix, and both are the tag and the prefix of that
\* handler's command.
C30_StateOfOneCommand ==
    BothApplied =>
        \E h \in Handlers :
            LET c == commandConfig[loc[h].cmd]
            IN  /\ channel.Name = edit[h].Name
                /\ channel.AppliedTags = edit[h].AppliedTags
                /\ OnePrefix(channel.Name, c.Prefix)
                /\ \E i \in 1..Len(Catalog) :
                       /\ Catalog[i].Name = c.TagName
                       /\ Restrict(channel.AppliedTags, ManagedIDs, TRUE) = <<Catalog[i].ID>>

\* C30 witness: ".solved" and ".Duplicate" ran on the same thread, each
\* handler read the thread before the other's edit was applied, and both
\* edits have been applied
C30_Witness ==
    /\ BothApplied
    /\ loc["h1"].cmd # loc["h2"].cmd
    /\ ch["h1"].Name = NameDupX /\ ch["h2"].Name = NameDupX
    /\ loc["h1"].applied = <<"t2", "t3">> /\ loc["h2"].applied = <<"t2", "t3">>
    /\ channel.Name = edit["h1"].Name
    /\ edit["h1"].Name # edit["h2"].Name

====
